---------------------------- MODULE Spec2Model ----------------------------
(***************************************************************************)
(* Request-path pipeline of the aegis-zero edge proxy:                     *)
(*   TLS/mTLS termination -> ServeMux -> Blocklist -> JWT -> Logger        *)
(*   (FlowTracker + Kafka shipping) -> reverse proxy.                      *)
(* Every request is handled by its own goroutine; the steps below are the  *)
(* points at which a handler can be suspended (handshake I/O, Redis        *)
(* lookup, upstream I/O, the per-flow mutex, the spawned shipLog           *)
(* goroutine).  Floating point values are modelled as exact rationals.     *)
(***************************************************************************)
EXTENDS Integers, Sequences, FiniteSets, TLC

VARIABLES reqs, tasks, flows, clock, main, call, conc, hist

vars == <<reqs, tasks, flows, clock, main, call, conc, hist>>

-----------------------------------------------------------------------------
(* Bounds of the model *)

\* number of connections (one request each) the server accepts
MaxReqs == 1
\* last clock reading (ticks of half a microsecond); instant 0 is the zero
\* time.Time
MaxClock == 2
\* number of calls made on the flow tracker on its own
MaxCalls == 2
\* how far, in ticks, a clock reading of those calls lies from the first
MaxSkew == 2
\* number of handler goroutines of the logger taken step by step
MaxWorkers == 2
\* number of calls a handler makes on its response writer
MaxWrites == 3

(* Program constants *)

StatusOK == 200
StatusUnauthorized == 401
StatusForbidden == 403
StatusBadGateway == 502
\* header overhead added to the request size estimate
HeaderOverhead == 500
\* sliding window length of the flow tracker
WindowSize == 100
\* len("Forbidden - IP Blocked") + newline written by http.Error
ForbiddenBodyLen == 23
\* len("Unauthorized - Missing token") + newline
MissingTokenBodyLen == 29
\* len("Unauthorized - Invalid token format") + newline
InvalidFormatBodyLen == 36
\* len("Unauthorized - Invalid token") + newline
InvalidTokenBodyLen == 29
\* len("Bad Gateway") + newline
BadGatewayBodyLen == 12
\* len of the static health JSON body
HealthBodyLen == 52

ReqIds == 1..MaxReqs

-----------------------------------------------------------------------------
(* Inputs *)

\* what the peer presents in the TLS handshake
Certs == {"none", "untrusted", "trusted"}

\* bearer tokens a client may send, by what the verifier finds in them
TokenInfo ==
  [t \in {"rs_ok", "rs_expired", "rs_badsig", "hs_pub", "none_alg", "garbage"} |->
     CASE t = "rs_ok"      -> [wellFormed |-> TRUE,  alg |-> "RS256", sigOK |-> TRUE,  claimsOK |-> TRUE]
       [] t = "rs_expired" -> [wellFormed |-> TRUE,  alg |-> "RS256", sigOK |-> TRUE,  claimsOK |-> FALSE]
       [] t = "rs_badsig"  -> [wellFormed |-> TRUE,  alg |-> "RS256", sigOK |-> FALSE, claimsOK |-> TRUE]
       [] t = "hs_pub"     -> [wellFormed |-> TRUE,  alg |-> "HS256", sigOK |-> TRUE,  claimsOK |-> TRUE]
       [] t = "none_alg"   -> [wellFormed |-> TRUE,  alg |-> "none",  sigOK |-> TRUE,  claimsOK |-> TRUE]
       [] OTHER            -> [wellFormed |-> FALSE, alg |-> "",      sigOK |-> FALSE, claimsOK |-> FALSE]]

Tokens == DOMAIN TokenInfo

\* Authorization header values, as sequences of words and single spaces;
\* the empty sequence is the absent (empty) header
AuthHeaders ==
  { <<>>,
    <<"rs_ok">>,
    <<"Basic", " ", "rs_ok">>,
    <<"Bearer", " ", "rs_ok">>,
    <<"Bearer", " ", "rs_expired">>,
    <<"Bearer", " ", "rs_badsig">>,
    <<"Bearer", " ", "hs_pub">>,
    <<"Bearer", " ", "none_alg">>,
    <<"Bearer", " ", "garbage">> }

\* the X-Forwarded-For and X-Real-IP header values and the peer address
\* r.RemoteAddr, as sequences of words and of the separators "," " " ":"
\* "[" "]"; the empty sequence is the absent (empty) header.  The server
\* sets RemoteAddr to host:port, an IPv6 host in brackets
Direct7 == [xff |-> <<>>, xri |-> <<>>, remoteAddr |-> <<"10.0.0.7", ":", "51234">>]
Direct8 == [xff |-> <<>>, xri |-> <<>>, remoteAddr |-> <<"10.0.0.8", ":", "51234">>]
DirectV6 ==
  [xff |-> <<>>, xri |-> <<>>,
   remoteAddr |-> <<"[", "fe80", ":", ":", "1", "]", ":", "51234">>]
ViaRealIP ==
  [xff |-> <<>>, xri |-> <<"10.0.0.7">>, remoteAddr |-> <<"10.0.0.8", ":", "51234">>]
ViaForwardedFor ==
  [xff |-> <<"10.0.0.8", " ", ",", " ", "10.0.0.7">>, xri |-> <<"10.0.0.7">>,
   remoteAddr |-> <<"10.0.0.7", ":", "51234">>]
ViaEmptyFirst ==
  [xff |-> <<",", "10.0.0.7">>, xri |-> <<"10.0.0.7">>,
   remoteAddr |-> <<"10.0.0.8", ":", "51234">>]

\* the addressing of a request: a forwarding list (absent, one value, two
\* values with and without spaces around the comma, an empty first value,
\* an IPv6 first value), X-Real-IP (absent, IPv4, IPv6) and a peer address
\* (IPv4, IPv6)
AddrInputs ==
  { [xff |-> f, xri |-> x, remoteAddr |-> a] :
      f \in { <<>>, <<"10.0.0.8">>, ViaForwardedFor.xff, ViaEmptyFirst.xff,
              <<"10.0.0.8", ",", "10.0.0.7">>,
              <<"fe80", ":", ":", "1", ",", " ", "10.0.0.7">> },
      x \in { <<>>, <<"10.0.0.7">>, <<"fe80", ":", ":", "1">> },
      a \in { Direct7.remoteAddr, Direct8.remoteAddr, DirectV6.remoteAddr,
              <<"[", ":", ":", "1", "]", ":", "443">> } }

Req(p, a, h, n) == [path |-> p, addr |-> a, auth |-> h, contentLength |-> n]

\* the requests clients send: every Authorization header from one peer,
\* an accepted header with the scheme in lower case, a declared content
\* length and a forwarding header, a request with X-Real-IP, and health
\* probes with and without a token
RequestInputs ==
  { Req("/api", Direct7, h, -1) : h \in AuthHeaders }
    \cup { Req("/api", ViaForwardedFor, <<"bearer", " ", "rs_ok">>, 100),
           Req("/api", ViaRealIP, <<>>, -1),
           Req("/health", Direct7, <<>>, -1),
           Req("/health", Direct8, <<"Bearer", " ", "rs_ok">>, -1) }

NoRequest ==
  [path |-> "", addr |-> [xff |-> <<>>, xri |-> <<>>, remoteAddr |-> <<>>],
   auth |-> <<>>, contentLength |-> 0]

\* what the origin does with a forwarded request
UpstreamOutcomes ==
  { [kind |-> "response", status |-> 200, size |-> 5, sent |-> 5],
    [kind |-> "response", status |-> 404, size |-> 0, sent |-> 0],
    [kind |-> "refused",  status |-> 0,   size |-> 0, sent |-> 0],
    [kind |-> "aborted",  status |-> 200, size |-> 5, sent |-> 2] }

-----------------------------------------------------------------------------
(* Exact rational arithmetic standing for float64 *)

RECURSIVE GCD(_, _)
GCD(a, b) == IF b = 0 THEN a ELSE GCD(b, a % b)

Abs(x) == IF x < 0 THEN -x ELSE x

\* the rational n/d (d > 0) in lowest terms
Rat(n, d) ==
  LET g == GCD(Abs(n), d)
  IN  IF n = 0 THEN [n |-> 0, d |-> 1] ELSE [n |-> n \div g, d |-> d \div g]

Zero == [n |-> 0, d |-> 1]

\* the loops over a window, as sums and extremes of the two halves of an
\* index range
RECURSIVE SumRange(_, _, _)
SumRange(s, lo, hi) ==
  IF lo > hi THEN 0
  ELSE IF lo = hi THEN s[lo]
  ELSE SumRange(s, lo, (lo + hi) \div 2) + SumRange(s, (lo + hi) \div 2 + 1, hi)

RECURSIVE SumSqRange(_, _, _)
SumSqRange(s, lo, hi) ==
  IF lo > hi THEN 0
  ELSE IF lo = hi THEN s[lo] * s[lo]
  ELSE SumSqRange(s, lo, (lo + hi) \div 2) + SumSqRange(s, (lo + hi) \div 2 + 1, hi)

RECURSIVE MaxRange(_, _, _)
MaxRange(s, lo, hi) ==
  IF lo = hi THEN s[lo]
  ELSE LET a == MaxRange(s, lo, (lo + hi) \div 2)
           b == MaxRange(s, (lo + hi) \div 2 + 1, hi)
       IN  IF b > a THEN b ELSE a

RECURSIVE MinRange(_, _, _)
MinRange(s, lo, hi) ==
  IF lo = hi THEN s[lo]
  ELSE LET a == MinRange(s, lo, (lo + hi) \div 2)
           b == MinRange(s, (lo + hi) \div 2 + 1, hi)
       IN  IF b < a THEN b ELSE a

SeqSum(s) == SumRange(s, 1, Len(s))

SeqSumSq(s) == SumSqRange(s, 1, Len(s))

SeqMax(s) == MaxRange(s, 1, Len(s))

SeqMin(s) == MinRange(s, 1, Len(s))

calculateSum(data) == Rat(SeqSum(data), 1)

\* a mean without the guard for the empty window: 0/0
calculateMeanUnguarded(data) ==
  IF Len(data) = 0 THEN [n |-> 0, d |-> 0] ELSE Rat(SeqSum(data), Len(data))

calculateMean(data) ==
  IF Len(data) = 0 THEN Zero ELSE Rat(SeqSum(data), Len(data))

calculateMax(data) == IF Len(data) = 0 THEN Zero ELSE Rat(SeqMax(data), 1)

calculateMin(data) == IF Len(data) = 0 THEN Zero ELSE Rat(SeqMin(data), 1)

\* population standard deviation, given as the rational it is the square
\* root of: sum((v - mean)^2)/N = (N*sum(v^2) - sum(v)^2)/N^2
calculateStdDev(data) ==
  IF Len(data) = 0 THEN [sqrtOf |-> Zero]
  ELSE [sqrtOf |-> Rat(Len(data) * SeqSumSq(data) - SeqSum(data) * SeqSum(data),
                       Len(data) * Len(data))]

-----------------------------------------------------------------------------
(* TLS layer and routing *)

\* tls.RequireAnyClientCert: any certificate passes, verified or not
VerifyClientCertAny(cert) == cert # "none"

\* ClientAuth: tls.RequireAndVerifyClientCert against ClientCAs
VerifyClientCert(cert) == cert = "trusted"

\* the chain with JWT wrapped outermost
ChainJWTFirst == <<"jwt", "blocklist", "logger", "proxy">>

\* the chain with the logger wrapped outermost
ChainLoggerFirst == <<"logger", "blocklist", "jwt", "proxy">>

\* the chain with the logger wrapped around the token check
ChainLoggerBeforeJWT == <<"blocklist", "logger", "jwt", "proxy">>

\* finalHandler, outermost handler first
Chain == <<"blocklist", "jwt", "logger", "proxy">>

\* the handler that next.ServeHTTP enters from a stage of the chain
NextStage(stage) ==
  LET i == CHOOSE j \in 1..Len(Chain) : Chain[j] = stage
  IN  Chain[i + 1]

\* a mux that sends every path through the chain
MuxRouteAll(path) == Chain[1]

\* mux: "/health" is the health handler, "/" the catch-all chain
MuxRoute(path) == IF path = "/health" THEN "health" ELSE Chain[1]

-----------------------------------------------------------------------------
(* Client key *)

\* strings.Index(s, sep) for a separator of one token, counted from 1;
\* 0 when s does not hold it
Index(s, sep) ==
  IF \E i \in 1..Len(s) : s[i] = sep
  THEN CHOOSE i \in 1..Len(s) : s[i] = sep /\ \A j \in 1..(i - 1) : s[j] # sep
  ELSE 0

\* strings.LastIndex(s, sep), counted from 1; 0 when s does not hold it
LastIndex(s, sep) ==
  IF \E i \in 1..Len(s) : s[i] = sep
  THEN CHOOSE i \in 1..Len(s) : s[i] = sep /\ \A j \in (i + 1)..Len(s) : s[j] # sep
  ELSE 0

\* strings.Split(s, sep)[0]: what stands before the first separator
SplitFirst(s, sep) ==
  IF Index(s, sep) = 0 THEN s ELSE SubSeq(s, 1, Index(s, sep) - 1)

\* strings.TrimSpace
RECURSIVE TrimSpace(_)
TrimSpace(s) ==
  IF s = <<>> THEN s
  ELSE IF Head(s) = " " THEN TrimSpace(Tail(s))
  ELSE IF s[Len(s)] = " " THEN TrimSpace(SubSeq(s, 1, Len(s) - 1))
  ELSE s

\* strings.TrimPrefix(s, tok)
TrimPrefix(s, tok) == IF s # <<>> /\ Head(s) = tok THEN Tail(s) ELSE s

\* strings.TrimSuffix(s, tok)
TrimSuffix(s, tok) ==
  IF s # <<>> /\ s[Len(s)] = tok THEN SubSeq(s, 1, Len(s) - 1) ELSE s

\* net.SplitHostPort(hostport): the host and whether it failed
SplitHostPort(hostport) ==
  LET i == LastIndex(hostport, ":")
      end == Index(hostport, "]")
      bad == [host |-> <<>>, err |-> TRUE]
  IN  IF i = 0 THEN bad
      ELSE IF Head(hostport) = "["
        THEN IF end = 0 \/ end + 1 # i THEN bad
             ELSE LET host == SubSeq(hostport, 2, end - 1)
                  IN  IF Index(host, "[") # 0 \/ Index(host, "]") # 0 THEN bad
                      ELSE [host |-> host, err |-> FALSE]
      ELSE LET host == SubSeq(hostport, 1, i - 1)
           IN  IF Index(host, ":") # 0 \/ Index(host, "[") # 0 \/ Index(host, "]") # 0
               THEN bad
               ELSE [host |-> host, err |-> FALSE]

\* an extraction that prefers X-Real-IP to X-Forwarded-For
extractClientIPRealIPFirst(r) ==
  IF r.addr.xri # <<>> THEN r.addr.xri
  ELSE IF r.addr.xff # <<>> THEN TrimSpace(SplitFirst(r.addr.xff, ","))
  ELSE LET ip == r.addr.remoteAddr
           idx == LastIndex(ip, ":")
           cut == IF idx # 0 THEN SubSeq(ip, 1, idx - 1) ELSE ip
       IN  TrimSuffix(TrimPrefix(cut, "["), "]")

\* extractClientIP of the blocklist middleware
extractClientIP(r) ==
  IF r.addr.xff # <<>> THEN TrimSpace(SplitFirst(r.addr.xff, ","))
  ELSE IF r.addr.xri # <<>> THEN r.addr.xri
  ELSE LET ip == r.addr.remoteAddr
           idx == LastIndex(ip, ":")
           cut == IF idx # 0 THEN SubSeq(ip, 1, idx - 1) ELSE ip
       IN  TrimSuffix(TrimPrefix(cut, "["), "]")

\* extractClientIPLogger of the logger middleware
extractClientIPLogger(r) ==
  IF r.addr.xff # <<>> THEN TrimSpace(SplitFirst(r.addr.xff, ","))
  ELSE IF r.addr.xri # <<>> THEN r.addr.xri
  ELSE LET hp == SplitHostPort(r.addr.remoteAddr)
       IN  IF hp.err THEN r.addr.remoteAddr ELSE hp.host

\* the Redis key "blocklist:ip:" + clientIP
BlocklistKey(clientIP) == <<"blocklist:ip:">> \o clientIP

-----------------------------------------------------------------------------
(* Token validation *)

\* position of the first single space of a header value, 0 when it has none
FirstSpace(h) ==
  IF \E i \in 1..Len(h) : h[i] = " "
  THEN CHOOSE i \in 1..Len(h) : h[i] = " " /\ \A j \in 1..(i - 1) : h[j] # " "
  ELSE 0

\* strings.SplitN(authHeader, " ", 2)
SplitN2(h) ==
  LET i == FirstSpace(h)
  IN  IF i = 0 THEN <<h>>
      ELSE <<SubSeq(h, 1, i - 1), SubSeq(h, i + 1, Len(h))>>

\* strings.ToLower on the words that occur as schemes
ToLower(w) ==
  CASE w \in {"Bearer", "BEARER", "bearer"} -> "bearer"
    [] w \in {"Basic", "basic"} -> "basic"
    [] OTHER -> w

ToLowerSeq(s) == [i \in DOMAIN s |-> ToLower(s[i])]

\* the algorithms whose jwt.SigningMethod is a *jwt.SigningMethodRSA
RSAMethods == {"RS256", "RS384", "RS512"}

\* the algorithms registered with the jwt library
RegisteredMethods == RSAMethods \cup {"HS256", "HS384", "HS512", "PS256", "ES256", "none"}

\* a key function that returns the public key for every algorithm
KeyFuncAnyAlg(alg) == TRUE

\* the key function handed to jwt.Parse: TRUE when it returns j.publicKey,
\* FALSE when it returns jwt.ErrSignatureInvalid
KeyFunc(alg) == alg \in RSAMethods

\* token.Method.Verify with the *rsa.PublicKey: the HMAC and none methods
\* refuse a key of that type
MethodVerify(t) == t.alg \in RSAMethods /\ t.sigOK

\* jwt.Parse(tokenString, keyFunc): parse the segments, resolve the method,
\* call the key function, verify the signature, validate the claims
JwtParse(tokenString) ==
  IF \/ Len(tokenString) # 1
     \/ tokenString[1] \notin Tokens
  THEN [err |-> TRUE, valid |-> FALSE, keyHanded |-> FALSE]
  ELSE
    LET t == TokenInfo[tokenString[1]]
    IN  IF ~t.wellFormed \/ t.alg \notin RegisteredMethods
          THEN [err |-> TRUE, valid |-> FALSE, keyHanded |-> FALSE]
        ELSE IF ~KeyFunc(t.alg)
          THEN [err |-> TRUE, valid |-> FALSE, keyHanded |-> FALSE]
        ELSE IF ~MethodVerify(t)
          THEN [err |-> TRUE, valid |-> FALSE, keyHanded |-> TRUE]
        ELSE IF ~t.claimsOK
          THEN [err |-> TRUE, valid |-> FALSE, keyHanded |-> TRUE]
        ELSE [err |-> FALSE, valid |-> TRUE, keyHanded |-> TRUE]

\* a validator that lets every request with an Authorization header through
JWTDecisionHeaderOnly(r) ==
  IF r.path = "/health" THEN [outcome |-> "skip", keyHanded |-> FALSE]
  ELSE IF r.auth = <<>> THEN [outcome |-> "missing", keyHanded |-> FALSE]
  ELSE [outcome |-> "ok", keyHanded |-> FALSE]

\* the decision of JWTMiddleware.Handler for a request
JWTDecision(r) ==
  IF r.path = "/health" THEN [outcome |-> "skip", keyHanded |-> FALSE]
  ELSE IF r.auth = <<>> THEN [outcome |-> "missing", keyHanded |-> FALSE]
  ELSE
    LET parts == SplitN2(r.auth)
    IN  IF Len(parts) # 2 \/ ToLowerSeq(parts[1]) # <<"bearer">>
          THEN [outcome |-> "format", keyHanded |-> FALSE]
        ELSE
          LET p == JwtParse(parts[2])
          IN  IF p.err THEN [outcome |-> "invalid", keyHanded |-> p.keyHanded]
              ELSE IF ~p.valid THEN [outcome |-> "invalid", keyHanded |-> p.keyHanded]
              ELSE [outcome |-> "ok", keyHanded |-> p.keyHanded]

-----------------------------------------------------------------------------
(* Denylist decision *)

\* client.Exists(ctx, key).Result(): the number of the keys that exist
RedisExists(present) == IF present THEN 1 ELSE 0

\* a handler that compares the count with the wrong threshold
BlocklistDecisionOffByOne(err, exists) ==
  IF err THEN "next" ELSE IF exists > 1 THEN "forbid" ELSE "next"

\* a fail-closed handler: a store error blocks
BlocklistDecisionFailClosed(err, exists) ==
  IF err THEN "forbid" ELSE IF exists > 0 THEN "forbid" ELSE "next"

\* BlocklistMiddleware.Handler after the lookup returned
BlocklistDecision(err, exists) ==
  IF err THEN "next" ELSE IF exists > 0 THEN "forbid" ELSE "next"

-----------------------------------------------------------------------------
(* Response writers *)

NewResponseWriter == [wroteHeader |-> FALSE, status |-> 0, bytes |-> 0]

\* the server's ResponseWriter: only the first WriteHeader counts
ServerWriteHeader(rw, code) ==
  IF rw.wroteHeader THEN rw ELSE [rw EXCEPT !.wroteHeader = TRUE, !.status = code]

\* the server's ResponseWriter: a Write sends the header (200) if none was sent
ServerWrite(rw, n) ==
  [ServerWriteHeader(rw, StatusOK) EXCEPT !.bytes = @ + n]

\* a wrapper that records the status but not the size
WrapperWriteNoCount(q, n) == [q EXCEPT !.rw = ServerWrite(@, n)]

\* a wrapper that keeps the first status it was given
WrapperWriteHeaderKeepsFirst(q, code) ==
  [q EXCEPT !.ww.statusCode = IF q.rw.wroteHeader THEN @ ELSE code,
            !.rw = ServerWriteHeader(@, code)]

\* responseWriterWrapper.WriteHeader
WrapperWriteHeader(q, code) ==
  [q EXCEPT !.ww.statusCode = code, !.rw = ServerWriteHeader(@, code)]

\* responseWriterWrapper.Write: the underlying writer takes all n bytes
WrapperWrite(q, n) ==
  [q EXCEPT !.rw = ServerWrite(@, n), !.ww.responseSize = @ + n]

\* WriteHeader on the writer the running handler was given
WriteHeader(q, code) ==
  IF q.wrapped THEN WrapperWriteHeader(q, code)
  ELSE [q EXCEPT !.rw = ServerWriteHeader(@, code)]

\* Write on the writer the running handler was given
Write(q, n) ==
  IF q.wrapped THEN WrapperWrite(q, n)
  ELSE [q EXCEPT !.rw = ServerWrite(@, n)]

\* http.Error(w, msg, code): WriteHeader(code), then the message and newline
HttpError(q, code, bodyLen) == Write(WriteHeader(q, code), bodyLen)

\* where control goes when the running handler returns: into the logger's
\* post-processing when the logger called it, else out of the chain
ReturnTo(q) ==
  IF q.wrapped /\ "update" \notin q.ran THEN "update" ELSE "done"

-----------------------------------------------------------------------------
(* Flow tracker *)

ZeroFeatures ==
  [BwdPacketLengthStd |-> [sqrtOf |-> Zero], BwdPacketLengthMean |-> Zero,
   AvgPacketSize |-> Zero, FlowBytesSec |-> Zero, FlowPacketsSec |-> Zero,
   FwdIATMean |-> Zero, FwdIATMax |-> Zero, FwdIATMin |-> Zero,
   FwdIATTotal |-> Zero, TotalFwdPackets |-> 0, SubflowFwdPackets |-> 0]

\* a first sight that stamps the new FlowStats with the time of its
\* allocation
NewFlowStatsStamped(now) ==
  [LastRequestTime |-> now, FlowStartTime |-> now,
   FwdPacketLengths |-> <<>>, BwdPacketLengths |-> <<>>, FwdIATs |-> <<>>,
   TotalFwdPkts |-> 0, TotalBwdPkts |-> 0]

\* the FlowStats a first sight of a key allocates
NewFlowStats(now) ==
  [LastRequestTime |-> 0, FlowStartTime |-> now,
   FwdPacketLengths |-> <<>>, BwdPacketLengths |-> <<>>, FwdIATs |-> <<>>,
   TotalFwdPkts |-> 0, TotalBwdPkts |-> 0]

\* a tracker that stores a new FlowStats on every call
getOrCreateFlowAlwaysNew(fl, clientIP, now) ==
  [k \in DOMAIN fl \cup {clientIP} |->
     IF k = clientIP THEN NewFlowStats(now) ELSE fl[k]]

\* FlowTracker.getOrCreateFlow: the map after Load / LoadOrStore
getOrCreateFlow(fl, clientIP, now) ==
  IF clientIP \in DOMAIN fl THEN fl
  ELSE [k \in DOMAIN fl \cup {clientIP} |->
          IF k = clientIP THEN NewFlowStats(now) ELSE fl[k]]

\* a trim that lets the window grow one sample too long
TrimOffByOne(w) == IF Len(w) > WindowSize + 1 THEN Tail(w) ELSE w

\* a trim that drops the newest sample
TrimDropsNewest(w) == IF Len(w) > WindowSize THEN SubSeq(w, 1, WindowSize) ELSE w

\* drop the oldest sample of a window that grew past its length
Trim(w) == IF Len(w) > WindowSize THEN Tail(w) ELSE w

\* time.Duration.Microseconds of an interval d of clock ticks: the clock
\* ticks twice in a microsecond, and the integer division truncates toward
\* zero
Microseconds(d) == IF d >= 0 THEN d \div 2 ELSE -((-d) \div 2)

\* a TrackRequest that keeps every interval, positive or not
TrackRequestKeepsEveryIAT(fl, clientIP, reqSize, now) ==
  LET m == getOrCreateFlow(fl, clientIP, now)
      stats == m[clientIP]
      fwdIAT == IF stats.LastRequestTime # 0
                THEN Microseconds(now - stats.LastRequestTime) ELSE 0
      iats == IF stats.LastRequestTime # 0
              THEN Append(stats.FwdIATs, fwdIAT) ELSE stats.FwdIATs
      st == [stats EXCEPT !.TotalFwdPkts = @ + 1,
                          !.FwdPacketLengths = Trim(Append(@, reqSize)),
                          !.FwdIATs = Trim(iats),
                          !.LastRequestTime = now]
  IN  [flows |-> [m EXCEPT ![clientIP] = st],
       features |-> [ZeroFeatures EXCEPT
                       !.TotalFwdPackets = st.TotalFwdPkts,
                       !.SubflowFwdPackets = st.TotalFwdPkts,
                       !.FwdIATMean = calculateMean(st.FwdIATs),
                       !.FwdIATMax = calculateMax(st.FwdIATs),
                       !.FwdIATMin = calculateMin(st.FwdIATs),
                       !.FwdIATTotal = calculateSum(st.FwdIATs)]]

\* FlowTracker.TrackRequest, under the flow's mutex: the map and the
\* features it returns
TrackRequest(fl, clientIP, reqSize, now) ==
  LET m == getOrCreateFlow(fl, clientIP, now)
      stats == m[clientIP]
      fwdIAT == IF stats.LastRequestTime # 0
                THEN Microseconds(now - stats.LastRequestTime) ELSE 0
      iats == IF fwdIAT > 0 THEN Append(stats.FwdIATs, fwdIAT) ELSE stats.FwdIATs
      st == [stats EXCEPT !.TotalFwdPkts = @ + 1,
                          !.FwdPacketLengths = Trim(Append(@, reqSize)),
                          !.FwdIATs = Trim(iats),
                          !.LastRequestTime = now]
  IN  [flows |-> [m EXCEPT ![clientIP] = st],
       features |-> [ZeroFeatures EXCEPT
                       !.TotalFwdPackets = st.TotalFwdPkts,
                       !.SubflowFwdPackets = st.TotalFwdPkts,
                       !.FwdIATMean = calculateMean(st.FwdIATs),
                       !.FwdIATMax = calculateMax(st.FwdIATs),
                       !.FwdIATMin = calculateMin(st.FwdIATs),
                       !.FwdIATTotal = calculateSum(st.FwdIATs)]]

\* an UpdateResponseStats that divides by the number of samples in the
\* windows
UpdateResponseStatsWindowMean(fl, clientIP, respSize, features, now) ==
  LET m == getOrCreateFlow(fl, clientIP, now)
      stats == m[clientIP]
      st == [stats EXCEPT !.TotalBwdPkts = @ + 1,
                          !.BwdPacketLengths = Trim(Append(@, respSize))]
      totalPackets == Len(st.FwdPacketLengths) + Len(st.BwdPacketLengths)
      totalSize == SeqSum(st.FwdPacketLengths) + SeqSum(st.BwdPacketLengths)
  IN  [flows |-> [m EXCEPT ![clientIP] = st],
       features |-> [features EXCEPT
                       !.BwdPacketLengthMean = calculateMean(st.BwdPacketLengths),
                       !.BwdPacketLengthStd = calculateStdDev(st.BwdPacketLengths),
                       !.AvgPacketSize =
                          IF totalPackets > 0 THEN Rat(totalSize, totalPackets) ELSE @]]

\* FlowTracker.UpdateResponseStats, under the flow's mutex: the map and
\* the features object it wrote into
UpdateResponseStats(fl, clientIP, respSize, features, now) ==
  LET m == getOrCreateFlow(fl, clientIP, now)
      stats == m[clientIP]
      st == [stats EXCEPT !.TotalBwdPkts = @ + 1,
                          !.BwdPacketLengths = Trim(Append(@, respSize))]
      totalPackets == st.TotalFwdPkts + st.TotalBwdPkts
      totalSize == SeqSum(st.FwdPacketLengths) + SeqSum(st.BwdPacketLengths)
  IN  [flows |-> [m EXCEPT ![clientIP] = st],
       features |-> [features EXCEPT
                       !.BwdPacketLengthMean = calculateMean(st.BwdPacketLengths),
                       !.BwdPacketLengthStd = calculateStdDev(st.BwdPacketLengths),
                       !.AvgPacketSize =
                          IF totalPackets > 0 THEN Rat(totalSize, totalPackets) ELSE @]]

-----------------------------------------------------------------------------
(* Per-request state *)

\* reqs[c]: the goroutine serving connection c.
\*   pc         where it stands
\*   cert       what the peer presented in the handshake
\*   r          the request read from the connection
\*   key        the denylist key looked up
\*   lookup     what the denylist lookup reported ("none" before it ran)
\*   inStore    whether the store holds the client's key for this request
\*   upstream   what the origin did with the forwarded request
\*   ran        the handlers and calls that ran for this request
\*   keyHanded  whether the key function returned the public key
\*   rw         the server's ResponseWriter: what the client gets
\*   wrapped    whether the running handler writes through the wrapper
\*   ww         the logger's responseWriterWrapper
\*   clientIP, reqSize, features: the logger's locals
NewReq ==
  [pc |-> "idle", cert |-> "none", r |-> NoRequest,
   key |-> BlocklistKey(<<>>), lookup |-> "none",
   inStore |-> FALSE, upstream |-> "none", ran |-> {}, keyHanded |-> FALSE,
   rw |-> NewResponseWriter, wrapped |-> FALSE,
   ww |-> [statusCode |-> 0, responseSize |-> 0],
   clientIP |-> <<>>, reqSize |-> 0, features |-> ZeroFeatures]

\* main: the main goroutine.
\*   pc         "serving" until the signal, "draining" inside
\*              server.Shutdown, "stopped" after it returned, "exited"
\*   listening  whether the server's listeners are open
\*   expired    whether Shutdown returned because its context expired
\*   deferred   the deferred calls of main, in the order of their defer (the
\*              cancel of the Shutdown context has no effect here)
\*   blocklistCloses, loggerCloses: how often each Close was called
NewMain ==
  [pc |-> "serving", listening |-> TRUE, expired |-> FALSE,
   deferred |-> <<"blocklistMiddleware.Close", "loggerMiddleware.Close">>,
   blocklistCloses |-> 0, loggerCloses |-> 0]

\* call: the call last made on the flow tracker by a caller of its two
\* methods, with the map as it was before the call and the features the
\* call returned or wrote
NoCall ==
  [op |-> "none", clientIP |-> <<>>, size |-> 0, now |-> 0,
   before |-> <<>>, features |-> ZeroFeatures, n |-> 0]

\* conc: the logger's handler goroutines taken step by step, with the
\* objects they share by pointer (pointers count from 1, 0 is nil).
\*   workers   the handler goroutines
\*   index     the tracker's sync.Map: key -> pointer to a FlowStats
\*   heap      the FlowStats objects allocated, each with its mutex (mu: the
\*             goroutine holding it, 0 when free)
\*   feats     the TrafficFeatures objects allocated
\*   events    the log entries handed to shipLog goroutines, each with the
\*             value its features had at the hand-over
NoConc ==
  [workers |-> <<>>, index |-> <<>>, heap |-> <<>>, feats |-> <<>>,
   events |-> <<>>]

\* hist: the calls made so far, in the order they took effect

Init ==
  /\ reqs = [c \in ReqIds |-> NewReq]
  /\ tasks = [c \in ReqIds |-> <<>>]
  /\ flows = <<>>
  /\ clock = 1
  /\ main = NewMain
  /\ call = NoCall
  /\ conc = NoConc
  /\ hist = <<>>

-----------------------------------------------------------------------------
(* Event shipping *)

\* the RequestLog the logger builds from its locals and the wrapper (its
\* wall-clock fields, Timestamp and Duration, and the fields copied from
\* request fields outside the model are left out)
LogEntry(q) ==
  [ClientIP |-> q.clientIP, URL |-> q.r.path,
   Status |-> q.ww.statusCode, RequestSize |-> q.reqSize,
   ResponseSize |-> q.ww.responseSize, Features |-> q.features]

\* a logger that ships the entry twice
SpawnShipLogTwice(ts, entry) ==
  Append(Append(ts, [entry |-> entry, state |-> "running"]),
         [entry |-> entry, state |-> "running"])

\* a logger that calls shipLog itself and returns when the send is over
SpawnShipLogInline(ts, entry) == Append(ts, [entry |-> entry, state |-> "sent"])

\* go lm.shipLog(logEntry): one more goroutine holding a copy of the entry
SpawnShipLog(ts, entry) == Append(ts, [entry |-> entry, state |-> "running"])

\* producer.SendMessage: a closed producer takes no message; an open one
\* delivers it or gives up after its retries
SendMessage(closed, ok) ==
  IF closed THEN "rejected" ELSE IF ok THEN "sent" ELSE "failed"

-----------------------------------------------------------------------------
(* Shutdown *)

\* the connections server.Shutdown waits for: those that are not idle
InFlight ==
  {c \in ReqIds : reqs[c].pc \notin {"idle", "dropped", "done", "aborted"}}

\* a Shutdown that does not wait for the connections
ShutdownReturnsAtOnce(inflight, expired) == TRUE

\* server.Shutdown(ctx) returns when no connection is in flight or when the
\* 30 second context has expired
ShutdownReturns(inflight, expired) == inflight = {} \/ expired

\* the effect of a deferred call of main
RunDeferredCall(m, f) ==
  CASE f = "blocklistMiddleware.Close" -> [m EXCEPT !.blocklistCloses = @ + 1]
    [] f = "loggerMiddleware.Close" -> [m EXCEPT !.loggerCloses = @ + 1]
    [] OTHER -> m

-----------------------------------------------------------------------------
(* Actions *)

\* a peer opens a connection; connections are numbered in order of arrival
Connect(c) ==
  /\ main.listening
  /\ reqs[c].pc = "idle"
  /\ \A d \in ReqIds : d < c => reqs[d].pc # "idle"
  /\ \E cert \in Certs :
       reqs' = [reqs EXCEPT ![c] = [@ EXCEPT !.pc = "handshake", !.cert = cert]]
  /\ UNCHANGED <<tasks, flows, clock, main, call, conc, hist>>

\* the TLS handshake: without a verifiable client certificate the
\* connection is dropped and no request is ever read from it
Handshake(c) ==
  /\ main.pc # "exited"
  /\ reqs[c].pc = "handshake"
  /\ reqs' = [reqs EXCEPT ![c].pc =
                IF VerifyClientCert(reqs[c].cert) THEN "accepted" ELSE "dropped"]
  /\ UNCHANGED <<tasks, flows, clock, main, call, conc, hist>>

\* the server reads a request and the mux picks its handler.  The store
\* belongs to the denylist writers and a request reads it at most once:
\* whether it holds the client's key for this request (present) is theirs
\* to decide
ServeRequest(c) ==
  /\ main.pc # "exited"
  /\ reqs[c].pc = "accepted"
  /\ \E r \in RequestInputs, present \in BOOLEAN :
       reqs' = [reqs EXCEPT ![c] =
                  [@ EXCEPT !.r = r, !.inStore = present, !.pc = MuxRoute(r.path)]]
  /\ UNCHANGED <<tasks, flows, clock, main, call, conc, hist>>

\* healthCheckHandler
HealthCheck(c) ==
  /\ main.pc # "exited"
  /\ reqs[c].pc = "health"
  /\ LET q == [reqs[c] EXCEPT !.ran = @ \cup {"health"}]
         q2 == Write(WriteHeader(q, StatusOK), HealthBodyLen)
     IN  reqs' = [reqs EXCEPT ![c] = [q2 EXCEPT !.pc = "done"]]
  /\ UNCHANGED <<tasks, flows, clock, main, call, conc, hist>>

\* BlocklistMiddleware.Handler: the lookup fails (err: store down, timeout,
\* malformed reply, client closed) or reports what the store holds
BlocklistHandler(c) ==
  /\ main.pc # "exited"
  /\ reqs[c].pc = "blocklist"
  /\ \E err \in (IF main.blocklistCloses > 0 THEN {TRUE} ELSE BOOLEAN) :
       LET q == reqs[c]
           clientIP == extractClientIP(q.r)
           exists == IF err THEN 0 ELSE RedisExists(q.inStore)
           q1 == [q EXCEPT !.ran = @ \cup {"blocklist"},
                           !.key = BlocklistKey(clientIP),
                           !.lookup = IF err THEN "error"
                                      ELSE IF exists > 0 THEN "exists" ELSE "absent"]
           q2 == HttpError(q1, StatusForbidden, ForbiddenBodyLen)
       IN  reqs' = [reqs EXCEPT ![c] =
                      IF BlocklistDecision(err, exists) = "forbid"
                      THEN [q2 EXCEPT !.pc = ReturnTo(q2)]
                      ELSE [q1 EXCEPT !.pc = NextStage("blocklist")]]
  /\ UNCHANGED <<tasks, flows, clock, main, call, conc, hist>>

\* JWTMiddleware.Handler
JWTHandler(c) ==
  /\ main.pc # "exited"
  /\ reqs[c].pc = "jwt"
  /\ LET d == JWTDecision(reqs[c].r)
         q == [reqs[c] EXCEPT !.ran = @ \cup {"jwt"}, !.keyHanded = d.keyHanded]
         bodyLen == CASE d.outcome = "missing" -> MissingTokenBodyLen
                      [] d.outcome = "format" -> InvalidFormatBodyLen
                      [] OTHER -> InvalidTokenBodyLen
         q2 == HttpError(q, StatusUnauthorized, bodyLen)
     IN  reqs' = [reqs EXCEPT ![c] =
                    IF d.outcome \in {"skip", "ok"}
                    THEN [q EXCEPT !.pc = NextStage("jwt")]
                    ELSE [q2 EXCEPT !.pc = ReturnTo(q2)]]
  /\ UNCHANGED <<tasks, flows, clock, main, call, conc, hist>>

\* LoggerMiddleware.Handler up to next.ServeHTTP: the forward observation,
\* at an instant not before the last clock reading, and the wrapper around
\* the response writer
LoggerBefore(c) ==
  /\ main.pc # "exited"
  /\ reqs[c].pc = "logger"
  /\ \E now \in clock..MaxClock :
       LET q == reqs[c]
           clientIP == extractClientIPLogger(q.r)
           reqSize == (IF q.r.contentLength < 0 THEN 0 ELSE q.r.contentLength)
                      + HeaderOverhead
           t == TrackRequest(flows, clientIP, reqSize, now)
       IN  /\ flows' = t.flows
           /\ clock' = now
           /\ reqs' = [reqs EXCEPT ![c] =
                         [q EXCEPT !.ran = @ \cup {"logger", "track"},
                                   !.clientIP = clientIP,
                                   !.reqSize = reqSize, !.features = t.features,
                                   !.wrapped = TRUE,
                                   !.ww = [statusCode |-> StatusOK, responseSize |-> 0],
                                   !.pc = NextStage("logger")]]
  /\ UNCHANGED <<tasks, main, call, conc, hist>>

\* ProxyHandler.ServeHTTP: the origin answers, refuses the connection
\* (ErrorHandler), or the transfer breaks after part of the body was copied
\* and the reverse proxy panics with http.ErrAbortHandler, which unwinds
\* every handler of the request
ProxyServe(c) ==
  /\ main.pc # "exited"
  /\ reqs[c].pc = "proxy"
  /\ \E o \in UpstreamOutcomes :
       LET q == [reqs[c] EXCEPT !.ran = @ \cup {"proxy"}, !.upstream = o.kind]
           ok == Write(WriteHeader(q, o.status), o.size)
           bad == HttpError(q, StatusBadGateway, BadGatewayBodyLen)
           cut == Write(WriteHeader(q, o.status), o.sent)
       IN  reqs' = [reqs EXCEPT ![c] =
                      CASE o.kind = "response" -> [ok EXCEPT !.pc = ReturnTo(ok)]
                        [] o.kind = "refused" -> [bad EXCEPT !.pc = ReturnTo(bad)]
                        [] OTHER -> [cut EXCEPT !.pc = "aborted"]]
  /\ UNCHANGED <<tasks, flows, clock, main, call, conc, hist>>

\* LoggerMiddleware.Handler after next.ServeHTTP returned: the backward
\* observation
LoggerAfter(c) ==
  /\ main.pc # "exited"
  /\ reqs[c].pc = "update"
  /\ LET q == reqs[c]
         u == UpdateResponseStats(flows, q.clientIP, q.ww.responseSize,
                                  q.features, clock)
     IN  /\ flows' = u.flows
         /\ reqs' = [reqs EXCEPT ![c] =
                       [q EXCEPT !.ran = @ \cup {"update"},
                                 !.features = u.features,
                                 !.pc = "ship"]]
  /\ UNCHANGED <<tasks, clock, main, call, conc, hist>>

\* LoggerMiddleware.Handler: build the log entry and spawn shipLog
LoggerShip(c) ==
  /\ main.pc # "exited"
  /\ reqs[c].pc = "ship"
  /\ tasks' = [tasks EXCEPT ![c] = SpawnShipLog(@, LogEntry(reqs[c]))]
  /\ reqs' = [reqs EXCEPT ![c] = [@ EXCEPT !.ran = @ \cup {"ship"}, !.pc = "done"]]
  /\ UNCHANGED <<flows, clock, main, call, conc, hist>>

\* shipLog: SendMessage delivers the entry, or fails after its retries, or
\* finds the producer closed
ShipLog(c) ==
  /\ main.pc # "exited"
  /\ \E i \in DOMAIN tasks[c] :
       /\ tasks[c][i].state = "running"
       /\ \E ok \in BOOLEAN :
            tasks' = [tasks EXCEPT ![c][i].state =
                        SendMessage(main.loggerCloses > 0, ok)]
  /\ UNCHANGED <<reqs, flows, clock, main, call, conc, hist>>

\* main receives the termination signal and calls server.Shutdown, which
\* closes the listeners first
Shutdown ==
  /\ main.pc = "serving"
  /\ main' = [main EXCEPT !.pc = "draining", !.listening = FALSE]
  /\ UNCHANGED <<reqs, tasks, flows, clock, call, conc, hist>>

\* server.Shutdown returns: nil when every connection is idle, the
\* context's error when the context expired first
ShutdownReturn ==
  /\ main.pc = "draining"
  /\ \E expired \in BOOLEAN :
       /\ ShutdownReturns(InFlight, expired)
       /\ expired => InFlight # {}
       /\ main' = [main EXCEPT !.pc = "stopped", !.expired = expired]
  /\ UNCHANGED <<reqs, tasks, flows, clock, call, conc, hist>>

\* main returns: its deferred calls run, the last deferred first; after the
\* last of them the process exits and every other goroutine ends where it
\* stands
RunDeferred ==
  /\ main.pc = "stopped"
  /\ main.deferred # <<>>
  /\ LET m == RunDeferredCall(main, main.deferred[Len(main.deferred)])
     IN  main' = [m EXCEPT !.deferred = SubSeq(@, 1, Len(@) - 1),
                           !.pc = IF Len(main.deferred) = 1 THEN "exited" ELSE @]
  /\ UNCHANGED <<reqs, tasks, flows, clock, call, conc, hist>>

Next ==
  \/ \E c \in ReqIds : Connect(c)
  \/ \E c \in ReqIds : Handshake(c)
  \/ \E c \in ReqIds : ServeRequest(c)
  \/ \E c \in ReqIds : HealthCheck(c)
  \/ \E c \in ReqIds : BlocklistHandler(c)
  \/ \E c \in ReqIds : JWTHandler(c)
  \/ \E c \in ReqIds : LoggerBefore(c)
  \/ \E c \in ReqIds : ProxyServe(c)
  \/ \E c \in ReqIds : LoggerAfter(c)
  \/ \E c \in ReqIds : LoggerShip(c)
  \/ \E c \in ReqIds : ShipLog(c)
  \/ Shutdown
  \/ ShutdownReturn
  \/ RunDeferred

Spec == Init /\ [][Next]_vars

\* The key derivation on its own: a request with any addressing is handed
\* to the two extraction functions
KeyInit ==
  /\ \E f \in [ReqIds -> AddrInputs] :
       reqs = [c \in ReqIds |-> [NewReq EXCEPT !.r = Req("/api", f[c], <<>>, -1)]]
  /\ tasks = [c \in ReqIds |-> <<>>]
  /\ flows = <<>>
  /\ clock = 1
  /\ main = NewMain
  /\ call = NoCall
  /\ conc = NoConc
  /\ hist = <<>>

\* clientIP := extractClientIP(r) of the blocklist handler and
\* clientIP := extractClientIPLogger(r) of the logger
ExtractKeys(c) ==
  /\ reqs[c].pc = "idle"
  /\ LET q == reqs[c]
     IN  reqs' = [reqs EXCEPT ![c] =
                    [q EXCEPT !.key = BlocklistKey(extractClientIP(q.r)),
                              !.clientIP = extractClientIPLogger(q.r),
                              !.pc = "extracted"]]
  /\ UNCHANGED <<tasks, flows, clock, main, call, conc, hist>>

KeyNext == \E c \in ReqIds : ExtractKeys(c)

KeySpec == KeyInit /\ [][KeyNext]_vars

\* The key derivation for peer addresses of any form: the addressings of
\* AddrInputs and those with a peer address that has no port
PortlessInputs ==
  { [xff |-> a.xff, xri |-> a.xri, remoteAddr |-> p] :
      a \in AddrInputs,
      p \in { <<"10.0.0.7">>, <<"[", "fe80", ":", ":", "1", "]">> } }

PeerInit ==
  /\ \E f \in [ReqIds -> AddrInputs \cup PortlessInputs] :
       reqs = [c \in ReqIds |-> [NewReq EXCEPT !.r = Req("/api", f[c], <<>>, -1)]]
  /\ tasks = [c \in ReqIds |-> <<>>]
  /\ flows = <<>>
  /\ clock = 1
  /\ main = NewMain
  /\ call = NoCall
  /\ conc = NoConc
  /\ hist = <<>>

PeerSpec == PeerInit /\ [][KeyNext]_vars

\* The flow tracker on its own: any sequence of calls of its two methods,
\* each under the flow's mutex, on a tracker that is new or has seen one
\* client for a while.

\* the keys, request sizes and response sizes of the calls
TrackerKeys == {<<"10.0.0.7">>, <<"10.0.0.8">>}
ReqSizes == {HeaderOverhead, HeaderOverhead + 100}
RespSizes == {0, BadGatewayBodyLen}

\* the clock reading at which the tracker is taken up
Epoch == 3 * WindowSize

\* the clock readings of the calls; a reading may lie before the last one
\* (a wall clock that was set back)
Instants == {Epoch + d : d \in (0 - MaxSkew)..MaxSkew}

\* the FlowStats of a client after n requests a microsecond apart, the last
\* at Epoch, each answered with 5 bytes before the next
FlowAfter(n) ==
  LET len == IF n < WindowSize THEN n ELSE WindowSize
      iats == IF n - 1 < WindowSize THEN n - 1 ELSE WindowSize
  IN  [LastRequestTime |-> Epoch, FlowStartTime |-> Epoch - 2 * (n - 1),
       FwdPacketLengths |-> [i \in 1..len |-> HeaderOverhead + 100 * (i % 2)],
       BwdPacketLengths |-> [i \in 1..len |-> 5],
       FwdIATs |-> [i \in 1..iats |-> 1],
       TotalFwdPkts |-> n, TotalBwdPkts |-> n]

TrackerStates ==
  {<<>>} \cup
    { [k \in {<<"10.0.0.7">>} |-> FlowAfter(n)] :
        n \in {WindowSize - 1, WindowSize + WindowSize \div 2} }

TrackerInit ==
  /\ reqs = [c \in ReqIds |-> NewReq]
  /\ tasks = [c \in ReqIds |-> <<>>]
  /\ flows \in TrackerStates
  /\ clock = Epoch
  /\ main = NewMain
  /\ call = NoCall
  /\ conc = NoConc
  /\ hist = <<>>

\* a caller's TrackRequest
CallTrackRequest ==
  /\ call.n < MaxCalls
  /\ \E k \in TrackerKeys, size \in ReqSizes, now \in Instants :
       LET t == TrackRequest(flows, k, size, now)
       IN  /\ flows' = t.flows
           /\ clock' = now
           /\ call' = [op |-> "TrackRequest", clientIP |-> k, size |-> size,
                       now |-> now, before |-> flows, features |-> t.features,
                       n |-> call.n + 1]
           /\ hist' = Append(hist, [op |-> "TrackRequest", clientIP |-> k,
                                     size |-> size, now |-> now])
  /\ UNCHANGED <<reqs, tasks, main, conc>>

\* a caller's UpdateResponseStats, with the features a TrackRequest just
\* returned or with a features object of zeros
CallUpdateResponseStats ==
  /\ call.n < MaxCalls
  /\ \E k \in TrackerKeys, size \in RespSizes :
       LET passed == IF call.op = "TrackRequest" THEN call.features ELSE ZeroFeatures
           u == UpdateResponseStats(flows, k, size, passed, clock)
       IN  /\ flows' = u.flows
           /\ call' = [op |-> "UpdateResponseStats", clientIP |-> k, size |-> size,
                       now |-> clock, before |-> flows, features |-> u.features,
                       n |-> call.n + 1]
           /\ hist' = Append(hist, [op |-> "UpdateResponseStats", clientIP |-> k,
                                     size |-> size, now |-> clock])
  /\ UNCHANGED <<reqs, tasks, clock, main, conc>>

TrackerNext == CallTrackRequest \/ CallUpdateResponseStats

TrackerSpec == TrackerInit /\ [][TrackerNext]_vars

\* The logger's handlers step by step: every handler goroutine calls
\* TrackRequest, the next handler and UpdateResponseStats and then spawns
\* shipLog; a step is one access to the tracker's sync.Map, one Lock, or
\* what a method does while it holds the flow's mutex.

WorkerIds == 1..MaxWorkers

\* what LoggerMiddleware.Handler does, in order
HandlerSteps == <<"TrackRequest", "ServeHTTP", "UpdateResponseStats", "shipLog">>

\* the step after step s of the handler
HandlerNext(s) ==
  IF \E i \in 1..(Len(HandlerSteps) - 1) : HandlerSteps[i] = s
  THEN HandlerSteps[(CHOOSE i \in 1..(Len(HandlerSteps) - 1) : HandlerSteps[i] = s) + 1]
  ELSE "done"

\* a handler goroutine that was just handed a request of client k:
\*   pc   the step of the handler it is in ("done" after the last,
\*        "aborted" when the next handler panicked)
\*   at   inside a tracker method: "Load", "LoadOrStore", "Lock", "locked"
\*   stats, newFlow, features: its pointers (0: not set)
NewWorker(k, size) ==
  [pc |-> HandlerSteps[1], at |-> "Load", clientIP |-> k, reqSize |-> size,
   responseSize |-> 0, stats |-> 0, newFlow |-> 0, features |-> 0]

\* a sync.Map whose LoadOrStore stores over the value that is there
LoadOrStoreOverwrites(m, key, value) ==
  [k \in DOMAIN m \cup {key} |-> IF k = key THEN value ELSE m[k]]

\* sync.Map.LoadOrStore: the map after the call
LoadOrStore(m, key, value) ==
  IF key \in DOMAIN m THEN m
  ELSE [k \in DOMAIN m \cup {key} |-> IF k = key THEN value ELSE m[k]]

\* a TrackRequest that hands out the features object it handed out last
AllocFeaturesReused(feats, v) ==
  IF feats = <<>> THEN <<v>> ELSE [feats EXCEPT ![Len(feats)] = v]

\* &TrafficFeatures{...}: a new object; its pointer is the length of the
\* result
AllocFeatures(feats, v) == Append(feats, v)

\* the tracker as the atomic model sees it: key -> FlowStats
FlowsOf(cc) == [k \in DOMAIN cc.index |-> cc.heap[cc.index[k]].stats]

\* the map of one flow that a method holding the mutex of object p works on
Locked(p, k) == [x \in {k} |-> conc.heap[p].stats]

\* the client of handler w when the handlers from `first' on serve the
\* second client (handlers and clients are interchangeable, so one order
\* stands for all)
ClientOf(w, first) ==
  IF w > first THEN <<"10.0.0.8">> ELSE <<"10.0.0.7">>

HandlerInit ==
  /\ reqs = [c \in ReqIds |-> NewReq]
  /\ tasks = [c \in ReqIds |-> <<>>]
  /\ flows = <<>>
  /\ clock = 1
  /\ main = NewMain
  /\ call = NoCall
  /\ \E first \in WorkerIds :
       conc = [NoConc EXCEPT
                 !.workers = [w \in WorkerIds |->
                                NewWorker(ClientOf(w, first), HeaderOverhead)]]
  /\ hist = <<>>

\* getOrCreateFlow, fast path: ft.flows.Load(clientIP); on a miss the new
\* FlowStats is allocated
FlowsLoad(w) ==
  /\ conc.workers[w].pc \in {"TrackRequest", "UpdateResponseStats"}
  /\ conc.workers[w].at = "Load"
  /\ LET g == conc.workers[w]
         p == Len(conc.heap) + 1
     IN  conc' =
           IF g.clientIP \in DOMAIN conc.index
           THEN [conc EXCEPT !.workers[w] =
                   [g EXCEPT !.stats = conc.index[g.clientIP], !.at = "Lock"]]
           ELSE [conc EXCEPT
                   !.heap = Append(@, [stats |-> NewFlowStats(clock), mu |-> 0]),
                   !.workers[w] = [g EXCEPT !.newFlow = p, !.at = "LoadOrStore"]]
  /\ flows' = FlowsOf(conc')
  /\ UNCHANGED <<reqs, tasks, clock, main, call, hist>>

\* getOrCreateFlow, slow path: ft.flows.LoadOrStore(clientIP, newFlow)
FlowsLoadOrStore(w) ==
  /\ conc.workers[w].at = "LoadOrStore"
  /\ LET g == conc.workers[w]
         m == LoadOrStore(conc.index, g.clientIP, g.newFlow)
     IN  conc' = [conc EXCEPT
                    !.index = m,
                    !.workers[w] = [g EXCEPT !.stats = m[g.clientIP], !.at = "Lock"]]
  /\ flows' = FlowsOf(conc')
  /\ UNCHANGED <<reqs, tasks, clock, main, call, hist>>

\* stats.mu.Lock(): waits while another goroutine holds the mutex
MuLock(w) ==
  /\ conc.workers[w].at = "Lock"
  /\ conc.heap[conc.workers[w].stats].mu = 0
  /\ conc' = [conc EXCEPT !.heap[conc.workers[w].stats].mu = w,
                          !.workers[w].at = "locked"]
  /\ flows' = FlowsOf(conc')
  /\ UNCHANGED <<reqs, tasks, clock, main, call, hist>>

\* TrackRequest from the Lock to the deferred Unlock; the clock is read a
\* microsecond after its last reading
TrackRequestLocked(w) ==
  /\ conc.workers[w].pc = "TrackRequest"
  /\ conc.workers[w].at = "locked"
  /\ \E now \in {clock + 2} :
       LET g == conc.workers[w]
           t == TrackRequest(Locked(g.stats, g.clientIP), g.clientIP, g.reqSize, now)
           fs == AllocFeatures(conc.feats, t.features)
       IN  /\ conc' = [conc EXCEPT
                         !.heap[g.stats] = [stats |-> t.flows[g.clientIP], mu |-> 0],
                         !.feats = fs,
                         !.workers[w] = [g EXCEPT !.features = Len(fs),
                                                  !.pc = HandlerNext(g.pc),
                                                  !.at = "Load"]]
           /\ clock' = now
           /\ hist' = Append(hist, [op |-> "TrackRequest", clientIP |-> g.clientIP,
                                     size |-> g.reqSize, now |-> now, by |-> w])
  /\ flows' = FlowsOf(conc')
  /\ UNCHANGED <<reqs, tasks, main, call>>

\* next.ServeHTTP(ww, r): the next handler returns with some bytes written
\* through the wrapper, or panics
NextServeHTTP(w) ==
  /\ conc.workers[w].pc = "ServeHTTP"
  /\ \E panics \in BOOLEAN :
       conc' = [conc EXCEPT !.workers[w] =
                  IF panics THEN [@ EXCEPT !.pc = "aborted"]
                  ELSE [@ EXCEPT !.responseSize = BadGatewayBodyLen,
                                 !.pc = HandlerNext(@)]]
  /\ UNCHANGED <<reqs, tasks, flows, clock, main, call, hist>>

\* UpdateResponseStats from the Lock to the deferred Unlock: it writes
\* into the features object the handler passed
UpdateResponseStatsLocked(w) ==
  /\ conc.workers[w].pc = "UpdateResponseStats"
  /\ conc.workers[w].at = "locked"
  /\ LET g == conc.workers[w]
         u == UpdateResponseStats(Locked(g.stats, g.clientIP), g.clientIP,
                                  g.responseSize, conc.feats[g.features], clock)
     IN  /\ conc' = [conc EXCEPT
                       !.heap[g.stats] = [stats |-> u.flows[g.clientIP], mu |-> 0],
                       !.feats[g.features] = u.features,
                       !.workers[w] = [g EXCEPT !.pc = HandlerNext(g.pc),
                                                !.at = "Load"]]
         /\ hist' = Append(hist, [op |-> "UpdateResponseStats",
                                   clientIP |-> g.clientIP, size |-> g.responseSize,
                                   now |-> clock, by |-> w])
  /\ flows' = FlowsOf(conc')
  /\ UNCHANGED <<reqs, tasks, clock, main, call>>

\* go lm.shipLog(logEntry): the entry holds the pointer to the features
GoShipLog(w) ==
  /\ conc.workers[w].pc = "shipLog"
  /\ LET g == conc.workers[w]
     IN  conc' = [conc EXCEPT
                    !.events = Append(@, [ClientIP |-> g.clientIP,
                                          RequestSize |-> g.reqSize,
                                          ResponseSize |-> g.responseSize,
                                          Features |-> g.features,
                                          emitted |-> conc.feats[g.features],
                                          after |-> Len(hist)]),
                    !.workers[w].pc = HandlerNext(g.pc)]
  /\ UNCHANGED <<reqs, tasks, flows, clock, main, call, hist>>

HandlerSpecNext ==
  \/ \E w \in WorkerIds : FlowsLoad(w)
  \/ \E w \in WorkerIds : FlowsLoadOrStore(w)
  \/ \E w \in WorkerIds : MuLock(w)
  \/ \E w \in WorkerIds : TrackRequestLocked(w)
  \/ \E w \in WorkerIds : NextServeHTTP(w)
  \/ \E w \in WorkerIds : UpdateResponseStatsLocked(w)
  \/ \E w \in WorkerIds : GoShipLog(w)

HandlerSpec == HandlerInit /\ [][HandlerSpecNext]_vars

\* The response capture on its own: the handler the logger calls makes any
\* sequence of WriteHeader and Write calls on the wrapper it was given, and
\* returns; the logger then makes the backward observation and ships.

\* the status codes a handler passes to WriteHeader
HeaderCodes == {StatusOK, 404, StatusBadGateway}

\* the calls of Write: the length of the slice and the count the
\* underlying writer returns (less than the length when it fails)
WriteCalls == {[len |-> 0, n |-> 0], [len |-> 5, n |-> 5], [len |-> 5, n |-> 2]}

\* one request that passed the blocklist and the token check is about to
\* enter the logger
WriterInit ==
  /\ reqs = [c \in ReqIds |->
               IF c = 1
               THEN [NewReq EXCEPT
                       !.pc = "logger", !.cert = "trusted",
                       !.r = Req("/api", Direct7, <<"Bearer", " ", "rs_ok">>, -1),
                       !.key = BlocklistKey(<<"10.0.0.7">>),
                       !.lookup = "absent", !.ran = {"blocklist", "jwt"},
                       !.keyHanded = TRUE]
               ELSE NewReq]
  /\ tasks = [c \in ReqIds |-> <<>>]
  /\ flows = <<>>
  /\ clock = 1
  /\ main = NewMain
  /\ call = NoCall
  /\ conc = NoConc
  /\ hist = <<>>

\* the handler calls w.WriteHeader(code)
HandlerWriteHeader(c) ==
  /\ reqs[c].pc = "proxy"
  /\ Len(hist) < MaxWrites
  /\ \E code \in HeaderCodes :
       /\ reqs' = [reqs EXCEPT ![c] = WriteHeader(@, code)]
       /\ hist' = Append(hist, [op |-> "WriteHeader", c |-> c, code |-> code])
  /\ UNCHANGED <<tasks, flows, clock, main, call, conc>>

\* the handler calls w.Write(b)
HandlerWrite(c) ==
  /\ reqs[c].pc = "proxy"
  /\ Len(hist) < MaxWrites
  /\ \E b \in WriteCalls :
       /\ reqs' = [reqs EXCEPT ![c] = Write(@, b.n)]
       /\ hist' = Append(hist, [op |-> "Write", c |-> c, len |-> b.len, n |-> b.n])
  /\ UNCHANGED <<tasks, flows, clock, main, call, conc>>

\* the handler returns into the logger
HandlerReturn(c) ==
  /\ reqs[c].pc = "proxy"
  /\ reqs' = [reqs EXCEPT ![c] = [@ EXCEPT !.ran = @ \cup {"proxy"},
                                           !.pc = ReturnTo(reqs[c])]]
  /\ UNCHANGED <<tasks, flows, clock, main, call, conc, hist>>

WriterNext ==
  \/ \E c \in ReqIds : LoggerBefore(c)
  \/ \E c \in ReqIds : HandlerWriteHeader(c)
  \/ \E c \in ReqIds : HandlerWrite(c)
  \/ \E c \in ReqIds : HandlerReturn(c)
  \/ \E c \in ReqIds : LoggerAfter(c)
  \/ \E c \in ReqIds : LoggerShip(c)

WriterSpec == WriterInit /\ [][WriterNext]_vars

\* a handler that is not waiting for the network runs on: the scheduler
\* gives a runnable goroutine the processor and the flow's mutex is always
\* released.  Nothing is assumed of the producer's send, of the upstream or
\* of the termination signal
LiveSpec ==
  /\ Spec
  /\ \A c \in ReqIds : WF_vars(LoggerAfter(c)) /\ WF_vars(LoggerShip(c))

-----------------------------------------------------------------------------
(* Properties *)

\* the handler chain of request c has returned
Finished(c) == reqs[c].pc = "done"

\* the request carries a valid bearer credential: a header of the form
\* Bearer <token>, scheme in any case, whose token is well-formed, signed
\* with an RSA algorithm, correctly signed and unexpired
ValidToken(r) ==
  \E scheme \in {"Bearer", "bearer", "BEARER"}, t \in Tokens :
    /\ r.auth = <<scheme, " ", t>>
    /\ TokenInfo[t].wellFormed
    /\ TokenInfo[t].alg \in {"RS256", "RS384", "RS512"}
    /\ TokenInfo[t].sigOK
    /\ TokenInfo[t].claimsOK

\* the token of a header of the form <scheme> <token>, "" when it has none
PresentedToken(r) ==
  LET parts == SplitN2(r.auth)
  IN  IF Len(parts) = 2 /\ Len(parts[2]) = 1 /\ parts[2][1] \in Tokens
      THEN parts[2][1] ELSE ""

\* the request carries a well-formed token that names a non-RSA algorithm
NonRSAToken(r) ==
  /\ PresentedToken(r) # ""
  /\ TokenInfo[PresentedToken(r)].wellFormed
  /\ TokenInfo[PresentedToken(r)].alg \notin {"RS256", "RS384", "RS512"}

\* C1 as stated: every finished catch-all request whose key is in the
\* denylist and whose token is invalid or missing was answered 403.
C1_DeniedInvalidAlways403 ==
  \A c \in ReqIds :
    (Finished(c) /\ reqs[c].r.path # "/health" /\ reqs[c].inStore
       /\ ~ValidToken(reqs[c].r))
      => reqs[c].rw.status = StatusForbidden

\* C1 amended: a finished catch-all request whose key is in the denylist,
\* whose lookup did not fail and whose token is invalid or missing was
\* answered 403, not 401, and token validation never ran for it.
C1_DenylistPrecedesToken ==
  \A c \in ReqIds :
    (Finished(c) /\ reqs[c].r.path # "/health" /\ reqs[c].inStore
       /\ reqs[c].lookup # "error" /\ ~ValidToken(reqs[c].r))
      => /\ reqs[c].rw.status = StatusForbidden
         /\ reqs[c].rw.status # StatusUnauthorized
         /\ "jwt" \notin reqs[c].ran

\* a denylisted client with an expired token has been answered 403
C1_Witness ==
  \E c \in ReqIds :
    /\ Finished(c) /\ reqs[c].inStore /\ reqs[c].lookup = "exists"
    /\ reqs[c].r.auth = <<"Bearer", " ", "rs_expired">>
    /\ reqs[c].rw.status = StatusForbidden

\* C2: once the lookup reports that the key exists, the request is answered
\* 403 with the fixed body and nothing downstream ever runs for it: no token
\* validation, no forward or backward observation, no upstream call, no
\* shipped event.
C2_BlockedShortCircuits ==
  \A c \in ReqIds :
    reqs[c].lookup = "exists"
      => /\ Finished(c)
         /\ reqs[c].rw.status = StatusForbidden
         /\ reqs[c].rw.bytes = ForbiddenBodyLen
         /\ reqs[c].ran = {"blocklist"}
         /\ ~reqs[c].keyHanded
         /\ reqs[c].features = ZeroFeatures
         /\ tasks[c] = <<>>

\* a blocked request that carried a token the validator would accept
C2_Witness ==
  \E c \in ReqIds :
    /\ reqs[c].lookup = "exists" /\ Finished(c)
    /\ ValidToken(reqs[c].r)
    /\ reqs[c].key = BlocklistKey(<<"10.0.0.8">>)

\* C3 as stated: a finished request from a denylisted IP with a valid token
\* has exactly one shipped event, with status 403.
C3_BlockedShipsOne403 ==
  \A c \in ReqIds :
    (Finished(c) /\ reqs[c].lookup = "exists" /\ ValidToken(reqs[c].r))
      => /\ Len(tasks[c]) = 1
         /\ tasks[c][1].entry.Status = StatusForbidden

\* C3 amended: a request from a denylisted IP with a valid token is answered
\* 403, makes no upstream call and ships no event.
C3_BlockedShipsNothing ==
  \A c \in ReqIds :
    (Finished(c) /\ reqs[c].r.path # "/health" /\ reqs[c].inStore
       /\ reqs[c].lookup # "error" /\ ValidToken(reqs[c].r))
      => /\ reqs[c].rw.status = StatusForbidden
         /\ "proxy" \notin reqs[c].ran
         /\ Len(tasks[c]) = 0

\* the denied-IP scenario: valid token, answered 403
C3_Witness ==
  \E c \in ReqIds :
    /\ Finished(c) /\ reqs[c].inStore /\ reqs[c].lookup = "exists"
    /\ reqs[c].r.auth = <<"Bearer", " ", "rs_ok">>
    /\ reqs[c].rw.status = StatusForbidden
    /\ tasks[c] = <<>>

\* C4: a lookup that failed never blocks: the request goes on to the next
\* stage, the 403 body is never written for it, and with a valid token it
\* reaches the forwarder, whether or not the store holds the key.
C4_FailOpen ==
  \A c \in ReqIds :
    reqs[c].lookup = "error"
      => /\ reqs[c].pc = "jwt" \/ "jwt" \in reqs[c].ran
         /\ reqs[c].rw.status # StatusForbidden
         /\ (ValidToken(reqs[c].r) /\ reqs[c].pc \in {"done", "aborted"})
              => "proxy" \in reqs[c].ran

\* a request whose key is in the store, forwarded because the lookup failed
C4_Witness ==
  \E c \in ReqIds :
    /\ reqs[c].lookup = "error" /\ reqs[c].inStore
    /\ ValidToken(reqs[c].r)
    /\ Finished(c) /\ reqs[c].upstream = "response"

\* C5: a non-denied request whose Authorization header is missing, malformed
\* or carries a token that fails verification is answered 401 as soon as the
\* validator has run, and neither the flow tracker nor the forwarder nor the
\* shipper ever runs for it.
C5_InvalidTokenIs401 ==
  \A c \in ReqIds :
    (reqs[c].lookup \in {"absent", "error"} /\ ~ValidToken(reqs[c].r))
      => /\ reqs[c].ran \subseteq {"blocklist", "jwt"}
         /\ reqs[c].features = ZeroFeatures
         /\ tasks[c] = <<>>
         /\ "jwt" \in reqs[c].ran
              => /\ Finished(c)
                 /\ reqs[c].rw.status = StatusUnauthorized

\* a request with a wrong scheme, a malformed or a failing token was
\* answered 401
C5_Witness ==
  \E c \in ReqIds :
    /\ Finished(c) /\ reqs[c].lookup = "absent"
    /\ reqs[c].r.auth # <<>> /\ ~ValidToken(reqs[c].r)
    /\ reqs[c].rw.status = StatusUnauthorized

\* C6: a well-formed token that names a non-RSA algorithm, once it reached
\* the validator, is answered 401 and the public key was never handed to
\* the verifier for it.
C6_AlgorithmPinning ==
  \A c \in ReqIds :
    ("jwt" \in reqs[c].ran /\ NonRSAToken(reqs[c].r))
      => /\ Finished(c)
         /\ reqs[c].rw.status = StatusUnauthorized
         /\ ~reqs[c].keyHanded
         /\ reqs[c].ran = {"blocklist", "jwt"}

\* the HS256 token keyed with the public key was rejected
C6_Witness ==
  \E c \in ReqIds :
    /\ "jwt" \in reqs[c].ran
    /\ reqs[c].r.auth = <<"Bearer", " ", "hs_pub">>
    /\ reqs[c].rw.status = StatusUnauthorized

\* C7: a request to /health runs the health handler only: no denylist
\* lookup, no token validation, no observation, no event; it is answered
\* 200 with the static body.
C7_HealthBypass ==
  \A c \in ReqIds :
    reqs[c].r.path = "/health"
      => /\ reqs[c].pc \in {"health", "done"}
         /\ reqs[c].ran \subseteq {"health"}
         /\ reqs[c].lookup = "none"
         /\ ~reqs[c].keyHanded
         /\ reqs[c].features = ZeroFeatures
         /\ tasks[c] = <<>>
         /\ Finished(c) => /\ reqs[c].rw.status = StatusOK
                           /\ reqs[c].rw.bytes = HealthBodyLen

\* a health probe without a token from a denylisted client was answered 200
C7_Witness ==
  \E c \in ReqIds :
    /\ reqs[c].r.path = "/health" /\ Finished(c)
    /\ reqs[c].inStore /\ reqs[c].r.auth = <<>>
    /\ reqs[c].rw.status = StatusOK

\* C8: a connection whose handshake presented no certificate, or one the CA
\* bundle does not verify, never gets past the handshake: no request is
\* read, no handler runs and nothing is written to it.
C8_MTLSGate ==
  \A c \in ReqIds :
    reqs[c].cert # "trusted"
      => /\ reqs[c].pc \in {"idle", "handshake", "dropped"}
         /\ reqs[c].r = NoRequest
         /\ reqs[c].ran = {}
         /\ reqs[c].rw = NewResponseWriter
         /\ tasks[c] = <<>>

\* a connection with an unverifiable certificate was dropped
C8_Witness ==
  \E c \in ReqIds : reqs[c].pc = "dropped" /\ reqs[c].cert = "untrusted"

C10_RefusedShipsSizeZero ==
  \A c \in ReqIds :
    (Finished(c) /\ reqs[c].upstream = "refused")
      => /\ reqs[c].rw.status = StatusBadGateway
         /\ Len(tasks[c]) = 1
         /\ tasks[c][1].entry.Status = StatusBadGateway
         /\ tasks[c][1].entry.ResponseSize = 0

\* C10 amended: a valid request the upstream refused is answered 502 and
\* has exactly one event, with status 502 and response size 12, the length
\* of the fixed body written through the capturing writer.
C10_RefusedShips502 ==
  \A c \in ReqIds :
    (Finished(c) /\ reqs[c].upstream = "refused")
      => /\ reqs[c].rw.status = StatusBadGateway
         /\ reqs[c].rw.bytes = BadGatewayBodyLen
         /\ Len(tasks[c]) = 1
         /\ tasks[c][1].entry.Status = StatusBadGateway
         /\ tasks[c][1].entry.ResponseSize = BadGatewayBodyLen

\* a valid, non-denied request the upstream refused, with its event spawned
C10_Witness ==
  \E c \in ReqIds :
    /\ Finished(c) /\ reqs[c].upstream = "refused"
    /\ reqs[c].lookup = "absent" /\ ValidToken(reqs[c].r)
    /\ Len(tasks[c]) = 1

\* the last 100 samples of a window
Last100(w) == IF Len(w) > 100 THEN SubSeq(w, Len(w) - 99, Len(w)) ELSE w

\* the FlowStats of key k before the last tracker call
FlowBefore(k) ==
  IF k \in DOMAIN call.before THEN call.before[k]
  ELSE [LastRequestTime |-> 0, FlowStartTime |-> 0,
        FwdPacketLengths |-> <<>>, BwdPacketLengths |-> <<>>, FwdIATs |-> <<>>,
        TotalFwdPkts |-> 0, TotalBwdPkts |-> 0]

\* C14: in every reachable state, for every key, each of the three windows
\* holds at most 100 samples, after any sequence of TrackRequest and
\* UpdateResponseStats calls.
C14_BoundedWindows ==
  \A k \in DOMAIN flows :
    /\ Len(flows[k].FwdPacketLengths) <= 100
    /\ Len(flows[k].BwdPacketLengths) <= 100
    /\ Len(flows[k].FwdIATs) <= 100

\* a forward observation on a flow whose size and interval windows were
\* full dropped the oldest sample of each and appended the new one
C14_Witness ==
  /\ call.op = "TrackRequest"
  /\ call.clientIP \in DOMAIN call.before
  /\ LET old == call.before[call.clientIP]
         new == flows[call.clientIP]
     IN  /\ Len(old.FwdPacketLengths) = 100 /\ Len(old.FwdIATs) = 100
         /\ call.now - old.LastRequestTime >= 2
         /\ Len(new.FwdPacketLengths) = 100 /\ Len(new.FwdIATs) = 100
         /\ new.FwdPacketLengths[100] = call.size
         /\ new.FwdPacketLengths[1] = old.FwdPacketLengths[2]

\* C15: across every tracker call no key disappears and no counter
\* decreases; a TrackRequest adds exactly 1 to total_forward of its key and
\* an UpdateResponseStats exactly 1 to total_backward of its key, and every
\* other counter keeps its value.
C15_CountersMonotone ==
  call.op # "none"
    => /\ DOMAIN call.before \subseteq DOMAIN flows
       /\ \A k \in DOMAIN flows :
            /\ flows[k].TotalFwdPkts >= FlowBefore(k).TotalFwdPkts
            /\ flows[k].TotalBwdPkts >= FlowBefore(k).TotalBwdPkts
            /\ flows[k].TotalFwdPkts =
                 FlowBefore(k).TotalFwdPkts
                   + (IF call.op = "TrackRequest" /\ k = call.clientIP THEN 1 ELSE 0)
            /\ flows[k].TotalBwdPkts =
                 FlowBefore(k).TotalBwdPkts
                   + (IF call.op = "UpdateResponseStats" /\ k = call.clientIP
                      THEN 1 ELSE 0)

\* a forward and then a backward observation on a flow with more
\* observations than a window holds
C15_Witness ==
  /\ call.op = "UpdateResponseStats" /\ call.n = 2
  /\ flows[call.clientIP].TotalFwdPkts = 151
  /\ flows[call.clientIP].TotalBwdPkts = 151
  /\ Len(flows[call.clientIP].BwdPacketLengths) = 100

\* C16: every interval held in a window is strictly positive; a forward
\* observation less than a whole microsecond after the previous one, or
\* before it, appends no interval and still sets last_forward_time, appends
\* its size and counts; one a whole microsecond or more after appends the
\* interval in whole microseconds.
C16_IATPositivity ==
  /\ \A k \in DOMAIN flows :
       \A i \in DOMAIN flows[k].FwdIATs : flows[k].FwdIATs[i] > 0
  /\ (call.op = "TrackRequest" /\ call.clientIP \in DOMAIN call.before)
       => LET old == call.before[call.clientIP]
              new == flows[call.clientIP]
              ticks == call.now - old.LastRequestTime
          IN  /\ new.LastRequestTime = call.now
              /\ new.TotalFwdPkts = old.TotalFwdPkts + 1
              /\ new.FwdPacketLengths = Last100(Append(old.FwdPacketLengths, call.size))
              /\ (old.LastRequestTime # 0 /\ ticks < 2) => new.FwdIATs = old.FwdIATs
              /\ (old.LastRequestTime # 0 /\ ticks >= 2)
                   => new.FwdIATs = Last100(Append(old.FwdIATs, ticks \div 2))

\* a forward observation half a microsecond after the previous one
C16_Witness ==
  /\ call.op = "TrackRequest"
  /\ call.clientIP \in DOMAIN call.before
  /\ call.now - call.before[call.clientIP].LastRequestTime = 1
  /\ flows[call.clientIP].FwdIATs = call.before[call.clientIP].FwdIATs
  /\ flows[call.clientIP].LastRequestTime = call.now

\* C17: the avg_packet_size an UpdateResponseStats writes is the sum of the
\* samples in the forward window plus the sum of those in the backward
\* window, divided by total_forward + total_backward, all taken right after
\* that backward observation, and 0 when the divisor is not positive.
C17_AvgPacketSize ==
  call.op = "UpdateResponseStats"
    => LET st == flows[call.clientIP]
           divisor == st.TotalFwdPkts + st.TotalBwdPkts
           total == SumRange(st.FwdPacketLengths, 1, Len(st.FwdPacketLengths))
                      + SumRange(st.BwdPacketLengths, 1, Len(st.BwdPacketLengths))
           avg == call.features.AvgPacketSize
       IN  IF divisor > 0
           THEN avg.d > 0 /\ avg.n * divisor = avg.d * total
           ELSE avg = [n |-> 0, d |-> 1]

\* a backward observation on a flow whose counters are past its windows
C17_Witness ==
  /\ call.op = "UpdateResponseStats"
  /\ LET st == flows[call.clientIP]
     IN  /\ st.TotalFwdPkts + st.TotalBwdPkts
              > Len(st.FwdPacketLengths) + Len(st.BwdPacketLengths)
         /\ call.size = 12
  /\ call.features.AvgPacketSize.n > 0

\* C18: the features the first TrackRequest on a new key returns, for any
\* size, have total_fwd_packets 1, subflow_fwd_packets 1 and every other
\* field 0: the forward interval statistics, the backward fields and
\* avg_packet_size.
C18_EmptyAggregates ==
  (call.op = "TrackRequest" /\ call.clientIP \notin DOMAIN call.before)
    => /\ call.features =
            [BwdPacketLengthStd |-> [sqrtOf |-> [n |-> 0, d |-> 1]],
             BwdPacketLengthMean |-> [n |-> 0, d |-> 1],
             AvgPacketSize |-> [n |-> 0, d |-> 1],
             FlowBytesSec |-> [n |-> 0, d |-> 1],
             FlowPacketsSec |-> [n |-> 0, d |-> 1],
             FwdIATMean |-> [n |-> 0, d |-> 1],
             FwdIATMax |-> [n |-> 0, d |-> 1],
             FwdIATMin |-> [n |-> 0, d |-> 1],
             FwdIATTotal |-> [n |-> 0, d |-> 1],
             TotalFwdPackets |-> 1, SubflowFwdPackets |-> 1]
       /\ flows[call.clientIP].FwdPacketLengths = <<call.size>>
       /\ flows[call.clientIP].FwdIATs = <<>>

\* the first request of a second client, of size 600, while the first
\* client's flow is long-lived
C18_Witness ==
  /\ call.op = "TrackRequest"
  /\ call.clientIP = <<"10.0.0.8">>
  /\ DOMAIN call.before = {<<"10.0.0.7">>}
  /\ call.size = 600
  /\ call.features.TotalFwdPackets = 1

\* the first comma-separated value of a header value
FirstField(v) ==
  CHOOSE f \in {SubSeq(v, 1, k) : k \in 0..Len(v)} :
    /\ \A i \in 1..Len(f) : f[i] # ","
    /\ Len(f) = Len(v) \/ v[Len(f) + 1] = ","

\* a value without the spaces around it
Trimmed(v) ==
  CHOOSE t \in {SubSeq(v, i, j) : i \in 1..(Len(v) + 1), j \in 0..Len(v)} :
    /\ t # <<>> => (t[1] # " " /\ t[Len(t)] # " ")
    /\ \E a, b \in 0..Len(v) :
         /\ a + Len(t) + b = Len(v)
         /\ \A i \in 1..a : v[i] = " "
         /\ \A i \in (Len(v) - b + 1)..Len(v) : v[i] = " "
         /\ t = SubSeq(v, a + 1, Len(v) - b)

\* the host of a peer address host:port or [host]:port
HostPortion(addr) ==
  CHOOSE h \in {SubSeq(addr, i, j) : i \in 1..2, j \in 0..Len(addr)} :
    \E port \in {addr[Len(addr)]} :
      \/ addr = h \o <<":", port>> /\ \A i \in 1..Len(h) : h[i] \notin {"[", "]"}
      \/ addr = <<"[">> \o h \o <<"]", ":", port>>

\* the ClientKey of a request by the precedence X-Forwarded-For, X-Real-IP,
\* peer address
ClientKey(r) ==
  IF r.addr.xff # <<>> THEN Trimmed(FirstField(r.addr.xff))
  ELSE IF r.addr.xri # <<>> THEN r.addr.xri
  ELSE HostPortion(r.addr.remoteAddr)

\* C19: the key the denylist looks up and the key the logger accounts and
\* ships under are both the ClientKey of the request: the trimmed first
\* comma-separated value of X-Forwarded-For when that header is not empty,
\* else X-Real-IP when not empty, else the host of the peer address without
\* port and brackets.
C19_ClientKeyDerivation ==
  \A c \in ReqIds :
    /\ (reqs[c].pc = "extracted" \/ "blocklist" \in reqs[c].ran)
         => reqs[c].key = <<"blocklist:ip:">> \o ClientKey(reqs[c].r)
    /\ (reqs[c].pc = "extracted" \/ "logger" \in reqs[c].ran)
         => reqs[c].clientIP = ClientKey(reqs[c].r)
    /\ \A i \in DOMAIN tasks[c] : tasks[c][i].entry.ClientIP = ClientKey(reqs[c].r)

\* a request with both headers and a padded X-Forwarded-For list has the
\* first value of the list as its key in both middlewares
C19_Witness ==
  \E c \in ReqIds :
    /\ reqs[c].r.addr = ViaForwardedFor
    /\ reqs[c].pc = "extracted"
    /\ reqs[c].key = <<"blocklist:ip:", "10.0.0.8">>
    /\ reqs[c].clientIP = <<"10.0.0.8">>

\* C11 as stated: every spawned ship task has finished its send before the
\* producer is closed, no task sends on a closed producer, and no task is
\* still waiting to send when the process exits.
C11_ShipTasksDrainBeforeClose ==
  \A c \in ReqIds :
    \A i \in DOMAIN tasks[c] :
      /\ main.loggerCloses > 0 => tasks[c][i].state \in {"sent", "failed"}
      /\ tasks[c][i].state # "rejected"
      /\ main.pc = "exited" => tasks[c][i].state # "running"

\* C12: the listeners are open exactly until the signal is handled; neither
\* the denylist client nor the producer is closed before server.Shutdown
\* has returned, which it does only when no connection is in flight or its
\* context has expired; and each is closed once, both when main has exited.
C12_ShutdownSequence ==
  /\ main.listening <=> main.pc = "serving"
  /\ main.blocklistCloses <= 1
  /\ main.loggerCloses <= 1
  /\ main.pc \in {"serving", "draining"}
       => main.blocklistCloses = 0 /\ main.loggerCloses = 0
  /\ (main.pc \in {"stopped", "exited"} /\ ~main.expired) => InFlight = {}
  /\ main.blocklistCloses > 0 => main.loggerCloses > 0
  /\ main.pc = "exited" <=> (main.blocklistCloses = 1 /\ main.loggerCloses = 1)

\* a request was forwarded and answered, the server drained without the
\* time limit and main closed both clients and exited
C12_Witness ==
  /\ main.pc = "exited" /\ ~main.expired
  /\ main.blocklistCloses = 1 /\ main.loggerCloses = 1
  /\ \E c \in ReqIds : Finished(c) /\ reqs[c].upstream = "response"

\* C13: the handler's last step spawns the ship task and returns at once,
\* with the task still waiting to send and the response as written; no
\* outcome of a send changes a request or its response; and a handler whose
\* terminal handler has returned does return (unless the process exits
\* first), also when no send ever completes.
C13_NonBlockingShipping ==
  /\ [][\A c \in ReqIds :
          /\ (reqs[c].pc = "ship" /\ reqs'[c].pc # "ship")
               => /\ reqs'[c].pc = "done"
                  /\ reqs'[c].rw = reqs[c].rw
                  /\ Len(tasks'[c]) = Len(tasks[c]) + 1
                  /\ tasks'[c][Len(tasks'[c])].state = "running"
          /\ (tasks'[c] # tasks[c] /\ reqs[c].pc # "ship") => reqs' = reqs
          /\ Finished(c) => reqs'[c] = reqs[c]]_vars
  /\ \A c \in ReqIds :
       (reqs[c].pc = "update") ~> (reqs[c].pc = "done" \/ main.pc = "exited")

\* a handler has returned with its response written while its event is
\* still waiting to be sent
C13_Witness ==
  \E c \in ReqIds :
    /\ Finished(c) /\ main.pc = "serving"
    /\ reqs[c].rw.status = StatusOK /\ reqs[c].rw.bytes = 5
    /\ Len(tasks[c]) = 1 /\ tasks[c][1].state = "running"

\* C20 as stated: a request whose forward observation was recorded has, when
\* its handler is over, also when the transfer broke in mid-response, one
\* backward observation with the bytes written and one event.
C20_AbortedStillObserved ==
  \A c \in ReqIds :
    ("track" \in reqs[c].ran /\ reqs[c].pc \in {"done", "aborted"})
      => /\ "update" \in reqs[c].ran
         /\ flows[reqs[c].clientIP].TotalBwdPkts >= 1
         /\ Len(tasks[c]) = 1
         /\ tasks[c][1].entry.ResponseSize = reqs[c].rw.bytes

\* the handler goroutines of client k whose call of step s has returned
Returned(k, s) ==
  LET later == CASE s = "TrackRequest" ->
                      {"ServeHTTP", "UpdateResponseStats", "shipLog", "done", "aborted"}
                 [] OTHER -> {"shipLog", "done"}
  IN  {w \in WorkerIds : conc.workers[w].clientIP = k /\ conc.workers[w].pc \in later}

\* the tracker after the calls of h made one after the other on an empty
\* tracker
RECURSIVE Sequentially(_)
Sequentially(h) ==
  IF h = <<>> THEN <<>>
  ELSE LET e == h[Len(h)]
           fl == Sequentially(SubSeq(h, 1, Len(h) - 1))
       IN  IF e.op = "TrackRequest"
           THEN TrackRequest(fl, e.clientIP, e.size, e.now).flows
           ELSE UpdateResponseStats(fl, e.clientIP, e.size, ZeroFeatures, e.now).flows

\* a FlowStats without the time its object was allocated
Observations(st) == [st EXCEPT !.FlowStartTime = 0]

\* C21: however the TrackRequest and UpdateResponseStats calls of
\* concurrent handlers interleave, also at the first sight of a key, every
\* caller past getOrCreateFlow holds the one FlowStats the map has for its
\* key, the flows are what the calls made one after the other in the order
\* they took the mutex give, and after n returned TrackRequest and m
\* returned UpdateResponseStats calls on a key total_forward is n and
\* total_backward is m.
C21_PerKeySerialization ==
  /\ \A w \in WorkerIds :
       conc.workers[w].at \in {"Lock", "locked"}
         => /\ conc.workers[w].clientIP \in DOMAIN conc.index
            /\ conc.workers[w].stats = conc.index[conc.workers[w].clientIP]
  /\ \A k \in TrackerKeys :
       LET n == Cardinality(Returned(k, "TrackRequest"))
           m == Cardinality(Returned(k, "UpdateResponseStats"))
       IN  IF k \in DOMAIN conc.index
           THEN /\ conc.heap[conc.index[k]].stats.TotalFwdPkts = n
                /\ conc.heap[conc.index[k]].stats.TotalBwdPkts = m
           ELSE n = 0 /\ m = 0
  /\ LET seq == Sequentially(hist)
     IN  \A k \in DOMAIN seq :
           /\ k \in DOMAIN conc.index
           /\ Observations(conc.heap[conc.index[k]].stats) = Observations(seq[k])

\* two handlers saw the same new key at once: both missed in Load and
\* allocated a FlowStats, one LoadOrStore stored, and both calls returned
C21_Witness ==
  \E v, w \in WorkerIds :
    /\ v # w
    /\ conc.workers[v].clientIP = conc.workers[w].clientIP
    /\ conc.workers[v].newFlow # 0 /\ conc.workers[w].newFlow # 0
    /\ conc.workers[v].stats = conc.workers[w].stats
    /\ conc.workers[v].pc = "done" /\ conc.workers[w].pc = "done"
    /\ conc.heap[conc.workers[v].stats].stats.TotalFwdPkts = 2
    /\ conc.heap[conc.workers[v].stats].stats.TotalBwdPkts = 2

\* C24: the backward observation of a request takes effect after the
\* forward observation of the same request on the same key, so that in
\* every reachable state total_backward <= total_forward for every key,
\* also when the handlers of one client interleave.
C24_ForwardBeforeBackward ==
  /\ \A i \in DOMAIN hist :
       hist[i].op = "UpdateResponseStats"
         => \E j \in 1..(i - 1) :
              /\ hist[j].op = "TrackRequest"
              /\ hist[j].by = hist[i].by
              /\ hist[j].clientIP = hist[i].clientIP
  /\ \A k \in DOMAIN flows : flows[k].TotalBwdPkts <= flows[k].TotalFwdPkts

\* two requests of one client interleaved: the forward observation of the
\* second took effect before the backward observation of the first
C24_Witness ==
  /\ Len(hist) >= 3
  /\ hist[1].op = "TrackRequest" /\ hist[2].op = "TrackRequest"
  /\ hist[3].op = "UpdateResponseStats"
  /\ hist[1].by = hist[3].by /\ hist[2].by # hist[1].by
  /\ hist[1].clientIP = hist[2].clientIP
  /\ flows[hist[1].clientIP].TotalFwdPkts = 2
  /\ flows[hist[1].clientIP].TotalBwdPkts = 1

\* C26: the features of an entry handed to a ship task keep the values they
\* had at the hand-over: no later observation on the same key, by a later or
\* a concurrent request, writes into them, no two entries hold the same
\* features object and no running handler holds the object of an entry
\* handed over by another.
C26_FeaturesImmutableAfterEmission ==
  /\ \A i \in DOMAIN conc.events :
       conc.feats[conc.events[i].Features] = conc.events[i].emitted
  /\ \A i, j \in DOMAIN conc.events :
       i # j => conc.events[i].Features # conc.events[j].Features
  /\ \A i \in DOMAIN conc.events, w \in WorkerIds :
       conc.workers[w].features = conc.events[i].Features
         => conc.workers[w].pc = "done"

\* after an entry was handed over, another request of the same client made
\* its forward and its backward observation
C26_Witness ==
  \E i \in DOMAIN conc.events :
    \E a, b \in DOMAIN hist :
      /\ conc.events[i].after < a /\ a < b
      /\ hist[a].op = "TrackRequest" /\ hist[b].op = "UpdateResponseStats"
      /\ hist[a].clientIP = conc.events[i].ClientIP
      /\ hist[b].clientIP = conc.events[i].ClientIP
      /\ hist[a].by = hist[b].by
      /\ conc.events[i].emitted.TotalFwdPackets = 1
      /\ conc.events[i].emitted.AvgPacketSize # Zero

\* the last n elements of a sequence
LastN(s, n) == IF Len(s) > n THEN SubSeq(s, Len(s) - n + 1, Len(s)) ELSE s

Min2(a, b) == IF a < b THEN a ELSE b

\* the requests lo..hi of the n that the first client made before the
\* calls, a microsecond apart and the last at Epoch, each answered with 5
\* bytes before the next, made on tracker fl
RECURSIVE Served(_, _, _, _)
Served(fl, lo, hi, n) ==
  IF lo > hi THEN fl
  ELSE IF lo = hi
    THEN LET at == Epoch - 2 * (n - lo)
             t == TrackRequest(fl, <<"10.0.0.7">>, HeaderOverhead + 100 * (lo % 2), at)
         IN  UpdateResponseStats(t.flows, <<"10.0.0.7">>, 5, t.features, at).flows
    ELSE LET half == Served(fl, lo, (lo + hi) \div 2, n)
         IN  IF half = <<>> THEN half
             ELSE Served(half, (lo + hi) \div 2 + 1, hi, n)

\* how many of the first i calls were calls of op on key k
CallsOn(k, op, i) ==
  Cardinality({j \in 1..i : hist[j].op = op /\ hist[j].clientIP = k})

\* how many observations of op the flow of k had seen before the calls
PriorOn(k, op) ==
  IF k \notin DOMAIN flows THEN 0
  ELSE IF op = "TrackRequest"
    THEN flows[k].TotalFwdPkts - CallsOn(k, op, Len(hist))
    ELSE flows[k].TotalBwdPkts - CallsOn(k, op, Len(hist))

\* the sizes of all observations of op on key k, in arrival order, after
\* the first i calls
RECURSIVE Arrivals(_, _, _)
Arrivals(k, op, i) ==
  IF i = 0
  THEN [j \in 1..PriorOn(k, op) |->
          IF op = "TrackRequest" THEN HeaderOverhead + 100 * (j % 2) ELSE 5]
  ELSE IF hist[i].op = op /\ hist[i].clientIP = k
    THEN Append(Arrivals(k, op, i - 1), hist[i].size)
    ELSE Arrivals(k, op, i - 1)

\* the instant of the last forward observation on k before call i (0: none)
LastForwardBefore(k, i) ==
  LET earlier == {j \in 1..(i - 1) :
                    hist[j].op = "TrackRequest" /\ hist[j].clientIP = k}
  IN  IF earlier # {}
      THEN hist[CHOOSE j \in earlier : \A x \in earlier : x <= j].now
      ELSE IF PriorOn(k, "TrackRequest") > 0 THEN Epoch ELSE 0

\* the intervals appended for key k, in order, after the first i calls
RECURSIVE AppendedIATs(_, _)
AppendedIATs(k, i) ==
  IF i = 0
  THEN [j \in 1..(IF PriorOn(k, "TrackRequest") > 0
                  THEN PriorOn(k, "TrackRequest") - 1 ELSE 0) |-> 1]
  ELSE LET last == LastForwardBefore(k, i)
           ticks == hist[i].now - last
       IN  IF hist[i].op = "TrackRequest" /\ hist[i].clientIP = k
              /\ last # 0 /\ ticks >= 2
           THEN Append(AppendedIATs(k, i - 1), ticks \div 2)
           ELSE AppendedIATs(k, i - 1)

\* value v is the mean of window w (0 for an empty one)
IsMeanOf(v, w) ==
  IF w = <<>> THEN v = [n |-> 0, d |-> 1]
  ELSE v.d > 0 /\ v.n * Len(w) = v.d * SumRange(w, 1, Len(w))

\* value v is the largest (up = TRUE) or smallest sample of window w
IsExtremeOf(v, w, up) ==
  IF w = <<>> THEN v = [n |-> 0, d |-> 1]
  ELSE /\ v.d = 1
       /\ \E i \in DOMAIN w : w[i] = v.n
       /\ \A i \in DOMAIN w : IF up THEN w[i] <= v.n ELSE w[i] >= v.n

\* C22: after any sequence of observations on a key forward_sizes is the
\* last min(total_forward, 100) request sizes in arrival order,
\* backward_sizes the last min(total_backward, 100) response sizes in
\* arrival order and forward_iats the last (up to 100) appended intervals
\* in order; the interval statistics TrackRequest returns and the backward
\* mean and deviation UpdateResponseStats writes are those of these
\* windows.
C22_DropOldestWindows ==
  /\ (hist = <<>> /\ flows # <<>>)
       => flows = Served(<<>>, 1, flows[<<"10.0.0.7">>].TotalFwdPkts,
                         flows[<<"10.0.0.7">>].TotalFwdPkts)
  /\ \A k \in DOMAIN flows :
       LET fwd == Arrivals(k, "TrackRequest", Len(hist))
           bwd == Arrivals(k, "UpdateResponseStats", Len(hist))
       IN  /\ Len(fwd) = flows[k].TotalFwdPkts
           /\ Len(bwd) = flows[k].TotalBwdPkts
           /\ flows[k].FwdPacketLengths = LastN(fwd, Min2(flows[k].TotalFwdPkts, 100))
           /\ flows[k].BwdPacketLengths = LastN(bwd, Min2(flows[k].TotalBwdPkts, 100))
           /\ flows[k].FwdIATs = LastN(AppendedIATs(k, Len(hist)), 100)
  /\ call.op = "TrackRequest"
       => LET w == flows[call.clientIP].FwdIATs
          IN  /\ IsMeanOf(call.features.FwdIATMean, w)
              /\ IsExtremeOf(call.features.FwdIATMax, w, TRUE)
              /\ IsExtremeOf(call.features.FwdIATMin, w, FALSE)
              /\ call.features.FwdIATTotal = [n |-> SumRange(w, 1, Len(w)), d |-> 1]
  /\ call.op = "UpdateResponseStats"
       => LET w == flows[call.clientIP].BwdPacketLengths
              var == call.features.BwdPacketLengthStd.sqrtOf
          IN  /\ IsMeanOf(call.features.BwdPacketLengthMean, w)
              /\ var.d > 0
              /\ var.n * Len(w) * Len(w)
                   = var.d * (Len(w) * SumSqRange(w, 1, Len(w))
                                - SumRange(w, 1, Len(w)) * SumRange(w, 1, Len(w)))

\* the 151st and 152nd request of a client, the second two microseconds
\* after the first: the two oldest sizes and intervals are gone and the
\* mean interval is that of the window, not of all intervals
C22_Witness ==
  /\ Len(hist) = 2
  /\ hist[1].op = "TrackRequest" /\ hist[2].op = "TrackRequest"
  /\ hist[1].clientIP = <<"10.0.0.7">> /\ hist[2].clientIP = <<"10.0.0.7">>
  /\ flows[<<"10.0.0.7">>].TotalFwdPkts = 152
  /\ hist[1].size # hist[2].size
  /\ flows[<<"10.0.0.7">>].FwdPacketLengths[99] = hist[1].size
  /\ flows[<<"10.0.0.7">>].FwdPacketLengths[100] = hist[2].size
  /\ flows[<<"10.0.0.7">>].FwdIATs[100] = 2
  /\ call.features.FwdIATMean = [n |-> 101, d |-> 100]

\* C23: in every reachable state and for every key total_forward is at
\* least the length of forward_sizes, and with total_forward >= 1 the
\* length of forward_iats is at most total_forward - 1.
C23_CounterWindowRelations ==
  \A k \in DOMAIN flows :
    /\ flows[k].TotalFwdPkts >= Len(flows[k].FwdPacketLengths)
    /\ flows[k].TotalFwdPkts >= 1
         => Len(flows[k].FwdIATs) <= flows[k].TotalFwdPkts - 1

\* a flow that a backward observation created, then one forward
\* observation later than it: no interval, one size
C23_Witness ==
  /\ Len(hist) = 2
  /\ hist[1].op = "UpdateResponseStats" /\ hist[2].op = "TrackRequest"
  /\ hist[1].clientIP = <<"10.0.0.8">> /\ hist[2].clientIP = <<"10.0.0.8">>
  /\ hist[2].now > hist[1].now + 1
  /\ flows[<<"10.0.0.8">>].TotalFwdPkts = 1
  /\ flows[<<"10.0.0.8">>].FwdIATs = <<>>
  /\ Len(flows[<<"10.0.0.8">>].FwdPacketLengths) = 1

\* C25: a FlowStats exists for a key only if a request with that client key
\* passed the denylist check and the token validation and made a forward
\* observation; and a key the tracker holds stays in it, so the set of
\* tracked keys only grows.
C25_FlowStateLifecycle ==
  /\ [](\A k \in DOMAIN flows :
          \E c \in ReqIds :
            /\ reqs[c].clientIP = k
            /\ reqs[c].key = BlocklistKey(k)
            /\ {"blocklist", "jwt", "track"} \subseteq reqs[c].ran
            /\ reqs[c].lookup \in {"absent", "error"}
            /\ ValidToken(reqs[c].r)
            /\ reqs[c].r.path # "/health")
  /\ [][DOMAIN flows \subseteq DOMAIN flows']_vars

\* a request passed both checks and was answered, and its flow is still
\* held after the handler returned
C25_Witness ==
  \E c \in ReqIds :
    /\ reqs[c].pc = "done"
    /\ reqs[c].lookup = "absent"
    /\ "update" \in reqs[c].ran
    /\ DOMAIN flows = {reqs[c].clientIP}
    /\ flows[reqs[c].clientIP].TotalBwdPkts = 1

\* the calls of op that the handler of request c made, in order
CallsOf(c, op) ==
  LET idx == {i \in DOMAIN hist : hist[i].c = c /\ hist[i].op = op}
      nth[k \in 0..Cardinality(idx)] ==
        IF k = 0 THEN 0 ELSE CHOOSE i \in idx : i > nth[k - 1] /\ \A j \in idx : j > nth[k - 1] => i <= j
  IN  [k \in 1..Cardinality(idx) |-> hist[nth[k]]]

\* the sum of the counts the underlying writer returned to request c
BytesTaken(c) ==
  LET ws == CallsOf(c, "Write")
      ns == [k \in DOMAIN ws |-> ws[k].n]
  IN  SumRange(ns, 1, Len(ns))

\* C27: the status the wrapper holds is the code last passed to
\* WriteHeader, or 200 if WriteHeader was never called, and its size is the
\* sum of the byte counts the underlying writer returned over all Write
\* calls; every Write has reached the underlying writer when it returns;
\* and once the handler returned, these are the values of the backward
\* observation and of the event.
C27_ResponseCapture ==
  \A c \in ReqIds :
    reqs[c].wrapped
      => LET hs == CallsOf(c, "WriteHeader")
         IN  /\ reqs[c].ww.statusCode =
                  (IF hs = <<>> THEN 200 ELSE hs[Len(hs)].code)
             /\ reqs[c].ww.responseSize = BytesTaken(c)
             /\ reqs[c].rw.bytes = BytesTaken(c)
             /\ "update" \in reqs[c].ran
                  => LET w == flows[reqs[c].clientIP].BwdPacketLengths
                     IN  w[Len(w)] = BytesTaken(c)
             /\ \A i \in DOMAIN tasks[c] :
                  /\ tasks[c][i].entry.Status = reqs[c].ww.statusCode
                  /\ tasks[c][i].entry.ResponseSize = BytesTaken(c)

\* a handler wrote 404, a whole slice and a slice the writer took 2 bytes
\* of, and its event was spawned
C27_Witness ==
  /\ Len(hist) = 3
  /\ hist[1].op = "WriteHeader" /\ hist[1].code = 404
  /\ hist[2].op = "Write" /\ hist[2].n = 5
  /\ hist[3].op = "Write" /\ hist[3].n = 2 /\ hist[3].len = 5
  /\ Len(tasks[1]) = 1
  /\ tasks[1][1].entry.Status = 404
  /\ tasks[1][1].entry.ResponseSize = 7

\* the status the client of a request gets: that of the first WriteHeader,
\* 200 when a Write came first or nothing was written
Delivered(rw) == IF rw.wroteHeader THEN rw.status ELSE 200

=============================================================================
